---- MODULE Spec2Model ----
(***************************************************************************)
(* A model of the hono-adapter: the token-bucket RateLimiterMiddleware,    *)
(* the HonoAdapter's deferred route registration, middlewareParser and the *)
(* HonoWebsocketAdapter's connection registry.  Each component has its own *)
(* specifications (SpecRL, SpecInstances and SpecCleanup; SpecRoute and    *)
(* SpecPipeline; SpecParser; SpecWS, SpecRegistry, SpecEvents and          *)
(* SpecHeartbeat); the variables of the other components then stay at      *)
(* their initial values.                                                   *)
(***************************************************************************)
EXTENDS Integers, Sequences, FiniteSets, TLC

VARIABLES
  \* ---- RateLimiterMiddleware (src/lib/middlewares/RateLimiterMiddleware.ts)
  capacity,     \* this.capacity, in tokens
  refillRate,   \* this.refillRate, in tokens per second
  cost,         \* this.cost: [fn, fixed], a function of the request or a fixed number
  statusCode,   \* this.statusCode
  message,      \* this.message
  buckets,      \* this.buckets: key -> [tokens, lastRefill] or NoBucket
  peerBuckets,  \* this.buckets of a second instance built with the same options
  now,          \* Date.now(), in milliseconds
  rlLast,       \* the last handle() call: [on, kind, key, cost, refilled, response]
  rlBurst,      \* per key: the calls made to its bucket since it was created
  \* ---- HonoWebsocketAdapter (src/unnamed/part_002, second class)
  websockets,          \* this.websockets: namespace -> service or NoService
  activeConnections,   \* this.activeConnections: namespace -> set of connection ids
  connectionLimits,    \* this.connectionLimits: namespace -> limit, NoLimit if unset
  heartbeatIntervals,  \* the connection ids that hold a heartbeat timer
  heartbeatInterval,   \* options.heartbeatInterval of prepareWebSocket (0: none)
  wsPrepared,          \* prepareWebSocket has installed the event handlers
  conn,                \* the server sockets: connection id -> its state
  wsWarnings,          \* what logger.warn was called for
  wsLatest,            \* namespace -> [svc, n]: the service of the latest accepted
                       \* registerWebSocket, and how many were accepted (up to 2)
  wsLastCall,          \* the service the last user hook ran on, and wsLatest then
  wsThrown,            \* what the last registerWebSocket call threw ("none": nothing)
  \* ---- HonoAdapter (src/unnamed/part_000)
  routeQueue,          \* this.routeQueue
  wsRouteQueue,        \* this.wsRouteQueue
  globalMiddlewares,   \* this.globalMiddlewares: sequence of [middleware, config]
  routesRegistered,    \* this.routesRegistered
  app,                 \* this.app: the routes attached to the Hono app, in order
  startCalls,          \* how many start() calls were made
  startFailed,         \* a start() call threw during registration
  \* ---- middlewareParser (src/lib/utils/middlewareParser.ts), one request
  mwChain,             \* the middlewares given to middlewareParser, in order
  mwStore,             \* context.get('_asenaContextWrapper'): a wrapper, 0 if none
  mwWrappers,          \* how many HonoContextWrapper objects the request created
  mwStages,            \* the stages dispatched so far: [received, state, outcome]
  \* ---- RateLimiterMiddleware, the background cleanup
  bucketTTL,           \* this.bucketTTL, in milliseconds
  cleanupTimer,        \* this.cleanupTimer: "none", "running" or "cleared"
  swept,               \* the keys the last cleanup sweep deleted
  destroyed,           \* TRUE once a call of destroy() has returned
  \* ---- HonoAdapter.extractBasePath, called on its own
  bpPath,              \* the argument, as path.split('/')
  bpResult,            \* the returned base path, <<>> before the call returns
  \* ---- an observer of the rate limiter
  acceptedCost         \* per key: the cost of the requests accepted since construction

rlVars == <<capacity, refillRate, cost, statusCode, message, buckets, peerBuckets, now, rlLast,
           rlBurst>>

wsVars == <<websockets, activeConnections, connectionLimits, heartbeatIntervals,
            heartbeatInterval, wsPrepared, conn, wsWarnings, wsLatest, wsLastCall, wsThrown>>

adVars == <<routeQueue, wsRouteQueue, globalMiddlewares, routesRegistered, app,
            startCalls, startFailed>>

mwVars == <<mwChain, mwStore, mwWrappers, mwStages>>

cleanupVars == <<bucketTTL, cleanupTimer, swept, destroyed>>

bpVars == <<bpPath, bpResult>>

meterVars == <<acceptedCost>>

restVars == <<mwVars, cleanupVars, bpVars, meterVars>>

vars == <<rlVars, wsVars, adVars, restVars>>

-----------------------------------------------------------------------------
(* Bounds of the model.                                                    *)

MaxCapacity == 2
MaxRefillRate == 1
MaxCost == 2
MaxTicks == 2
MaxLimit == 1
MaxRoutes == 2
MaxWsRoutes == 1
MaxGlobals == 2
MaxStarts == 2
MaxChain == 2

(* Program constants.                                                      *)
MsPerSecond == 1000
HeartbeatMs == 30000
DefaultStatusCode == 429
DefaultMessage == "Rate limit exceeded. Please try again later."
SecondsPerMinute == 60
DefaultBucketTTL == 600000

(* A negative capacity or refill rate is accepted by the constructor; time  *)
(* advances by half a second.                                              *)
ConfigFloor == 0 - 1
TickMs == MsPerSecond \div 2

Keys == {"k1", "k2"}
NoBucket == [tokens |-> -1, lastRefill |-> -1, absent |-> TRUE]
FixedCost(c) == [fn |-> FALSE, fixed |-> c]
CostFn == [fn |-> TRUE, fixed |-> 0]

Min(a, b) == IF a <= b THEN a ELSE b

-----------------------------------------------------------------------------
(* RateLimiterMiddleware.  Tokens are kept in thousandths of a token, so   *)
(* that elapsedSeconds * refillRate = (elapsedMs / 1000) * refillRate is   *)
(* the integer elapsedMs * refillRate.                                     *)

Scaled(n) == n * MsPerSecond

NewBucket(t) == [tokens |-> Scaled(capacity), lastRefill |-> t, absent |-> FALSE]

GetOrCreate(k, t) == IF buckets[k].absent THEN NewBucket(t) ELSE buckets[k]

TokensToAdd(bucket, t) == (t - bucket.lastRefill) * refillRate

RefillUnclamped(bucket, t) == bucket.tokens + TokensToAdd(bucket, t)

RefillTokens(bucket, t) == Min(bucket.tokens + TokensToAdd(bucket, t), Scaled(capacity))

RequestCost(c) == IF cost.fn THEN c ELSE cost.fixed

AdmitsOffByOne(tokens, c) == tokens > Scaled(c)

Admits(tokens, c) == ~(tokens < Scaled(c))

AfterRejectSpends(tokens, c) == IF tokens > 0 THEN 0 ELSE tokens

AfterReject(tokens, c) == tokens

AfterAccept(tokens, c) == tokens - Scaled(c)

(* Numbers as handle() computes them: a division by a zero refill rate    *)
(* gives Infinity.  A header value String(x) is kept as the number x.      *)
Num(n) == [inf |-> FALSE, n |-> n]
Infinity == [inf |-> TRUE, n |-> 0]

NoHeader == [set |-> FALSE, inf |-> FALSE, n |-> 0]
Header(v) == [set |-> TRUE, inf |-> v.inf, n |-> v.n]
NoHeaders == [retryAfter |-> NoHeader, limit |-> NoHeader, remaining |-> NoHeader,
              reset |-> NoHeader]

(* Math.floor(a / b) for b > 0.                                            *)
FloorDiv(a, b) == Num(a \div b)

CeilDivRoundsDown(a, b) ==
  IF b = 0 THEN Infinity
  ELSE IF b > 0 THEN Num(a \div b)
  ELSE Num(0 - (a \div (0 - b)))

(* Math.ceil(a / b) for a > 0, as in the rejection branch.                 *)
CeilDiv(a, b) ==
  IF b = 0 THEN Infinity
  ELSE IF b > 0 THEN Num(0 - ((0 - a) \div b))
  ELSE Num(0 - (a \div (0 - b)))

(* Math.ceil((requestCost - bucket.tokens) / this.refillRate)              *)
RetryAfter(tokens, c) == CeilDiv(Scaled(c) - tokens, Scaled(refillRate))

(* Math.floor(this.refillRate * 60)                                        *)
RateLimitLimit == Num(refillRate * SecondsPerMinute)

(* Math.floor(bucket.tokens)                                               *)
RateLimitRemaining(tokens) == FloorDiv(tokens, MsPerSecond)

(* Math.floor(bucket.lastRefill / 1000 + delay)                            *)
RateLimitReset(lastRefill, delay) ==
  IF delay.inf THEN Infinity ELSE FloorDiv(lastRefill + Scaled(delay.n), MsPerSecond)

NoResponse == [next |-> FALSE, status |-> 0, body |-> "", headers |-> NoHeaders]

(* return await next(), before the bucket map is read                      *)
SkipResponse == [next |-> TRUE, status |-> 0, body |-> "", headers |-> NoHeaders]

BucketsAfterSkipCreates(k) == [buckets EXCEPT ![k] = GetOrCreate(k, now)]

BucketsAfterSkip(k) == buckets

(* new Response(this.message, {status, headers}), next is not called       *)
RejectResponse(tokens, c, lastRefill) ==
  [next |-> FALSE, status |-> statusCode, body |-> message,
   headers |-> [retryAfter |-> Header(RetryAfter(tokens, c)),
                limit |-> Header(RateLimitLimit),
                remaining |-> Header(RateLimitRemaining(tokens)),
                reset |-> Header(RateLimitReset(lastRefill, RetryAfter(tokens, c)))]]

(* The headers set on the context, then next(); tokens is what is left     *)
(* after the cost was consumed.                                            *)
AcceptResponse(tokens, lastRefill) ==
  [next |-> TRUE, status |-> 0, body |-> "",
   headers |-> [retryAfter |-> NoHeader,
                limit |-> Header(RateLimitLimit),
                remaining |-> Header(RateLimitRemaining(tokens)),
                reset |-> Header(RateLimitReset(lastRefill, Num(SecondsPerMinute)))]]

NoCall == [on |-> "M", kind |-> "none", key |-> "k1", cost |-> 0, refilled |-> 0,
           response |-> NoResponse]

(* The calls made to key k's bucket since the bucket was created: whether  *)
(* they all came with zero elapsed time and one cost, how many were        *)
(* accepted, and whether one was rejected.                                 *)
NoBurst == [uniform |-> FALSE, cost |-> 0, accepted |-> 0, rejected |-> FALSE, at |-> 0]

BurstCap == MaxCapacity + 2

BurstAfter(k, c, ok, created) ==
  IF c <= 0 THEN NoBurst
  ELSE IF created
  THEN [uniform |-> TRUE, cost |-> c, accepted |-> IF ok THEN 1 ELSE 0,
        rejected |-> ~ok, at |-> now]
  ELSE LET b == rlBurst[k] IN
       IF b.uniform /\ b.cost = c /\ b.at = now /\ ~b.rejected
       THEN [b EXCEPT !.accepted = IF ok THEN Min(@ + 1, BurstCap) ELSE @, !.rejected = ~ok]
       ELSE IF b.uniform /\ b.cost = c /\ b.at = now THEN b
       ELSE NoBurst

SetBucketForAll(bs, k, bucket) == [x \in DOMAIN bs |-> bucket]

(* this.buckets.set(key, bucket), and the writes to that bucket object     *)
SetBucket(bs, k, bucket) == [bs EXCEPT ![k] = bucket]

(* handle() with the skip predicate returning true: next() and nothing else. *)
HandleSkip(k) ==
  /\ buckets' = BucketsAfterSkip(k)
  /\ rlLast' = [on |-> "M", kind |-> "skip", key |-> k, cost |-> 0, refilled |-> 0,
                response |-> SkipResponse]
  /\ UNCHANGED <<capacity, refillRate, cost, statusCode, message, peerBuckets, now, rlBurst>>
  /\ UNCHANGED <<wsVars, adVars, restVars>>

(* handle(): get or create the bucket, refill it, then reject or consume.  *)
(* The body runs without an await between buckets.get and the consumption, *)
(* so two requests never interleave inside it.                             *)
HandleCall(k, c) ==
  LET created == buckets[k].absent
      bucket == GetOrCreate(k, now)
      refilled == RefillTokens(bucket, now)
      rc == RequestCost(c)
      ok == Admits(refilled, rc)
      tokens == IF ok THEN AfterAccept(refilled, rc) ELSE AfterReject(refilled, rc)
  IN /\ buckets' = SetBucket(buckets, k, [tokens |-> tokens, lastRefill |-> now,
                                          absent |-> FALSE])
     /\ rlLast' = [on |-> "M", kind |-> IF ok THEN "accept" ELSE "reject", key |-> k,
                    cost |-> rc,
                    refilled |-> refilled,
                    response |-> IF ok THEN AcceptResponse(tokens, now)
                                 ELSE RejectResponse(tokens, rc, now)]
     /\ rlBurst' = [rlBurst EXCEPT ![k] = BurstAfter(k, rc, ok, created)]
     /\ UNCHANGED <<capacity, refillRate, cost, statusCode, message, peerBuckets, now>>
     /\ UNCHANGED <<wsVars, adVars, mwVars, cleanupVars, bpVars>>

Handle(k, c) == HandleCall(k, c) /\ UNCHANGED meterVars

(* handle() observed from outside: the cost of every accepted request is   *)
(* added to the key's total (the total stops at AcceptedCap).              *)
AcceptedCap == MaxCapacity + MaxTicks + 1

MeteredHandle(k, c) ==
  /\ HandleCall(k, c)
  /\ acceptedCost' = [acceptedCost EXCEPT ![k] =
                        IF rlLast'.kind = "accept"
                        THEN Min(@ + rlLast'.cost, AcceptedCap) ELSE @]

(* handle() of the second instance: it reads and writes its own Map.       *)
PeerGetOrCreate(k, t) == IF peerBuckets[k].absent THEN NewBucket(t) ELSE peerBuckets[k]

PeerHandle(k, c) ==
  LET bucket == PeerGetOrCreate(k, now)
      refilled == RefillTokens(bucket, now)
      rc == RequestCost(c)
      ok == Admits(refilled, rc)
      tokens == IF ok THEN AfterAccept(refilled, rc) ELSE AfterReject(refilled, rc)
  IN /\ peerBuckets' = SetBucket(peerBuckets, k, [tokens |-> tokens, lastRefill |-> now,
                                                  absent |-> FALSE])
     /\ rlLast' = [on |-> "N", kind |-> IF ok THEN "accept" ELSE "reject", key |-> k,
                    cost |-> rc, refilled |-> refilled,
                    response |-> IF ok THEN AcceptResponse(tokens, now)
                                 ELSE RejectResponse(tokens, rc, now)]
     /\ UNCHANGED <<capacity, refillRate, cost, statusCode, message, buckets, now, rlBurst>>
     /\ UNCHANGED <<wsVars, adVars, restVars>>

(* Time passes between two calls.                                          *)
Tick ==
  /\ now < MaxTicks * TickMs
  /\ now' = now + TickMs
  /\ UNCHANGED <<capacity, refillRate, cost, statusCode, message, buckets, peerBuckets,
                 rlLast, rlBurst>>
  /\ UNCHANGED <<wsVars, adVars, restVars>>

ExpiredAtTTL(bucket, t) == ~bucket.absent /\ t - bucket.lastRefill >= bucketTTL

(* now - bucket.lastRefill > this.bucketTTL                                *)
Expired(bucket, t) == ~bucket.absent /\ t - bucket.lastRefill > bucketTTL

(* The keys one sweep collects in keysToDelete.                            *)
keysToDelete(bs, t) == {k \in DOMAIN bs : Expired(bs[k], t)}

(* One firing of the setInterval callback of setupCleanup; the first one   *)
(* comes a whole interval after the construction.                          *)
Sweep ==
  /\ cleanupTimer = "running"
  /\ now > 0
  /\ buckets' = [k \in Keys |-> IF k \in keysToDelete(buckets, now)
                                THEN NoBucket ELSE buckets[k]]
  /\ rlBurst' = [k \in Keys |-> IF k \in keysToDelete(buckets, now)
                                THEN NoBurst ELSE rlBurst[k]]
  /\ swept' = keysToDelete(buckets, now)
  /\ UNCHANGED <<capacity, refillRate, cost, statusCode, message, peerBuckets, now,
                 rlLast, bucketTTL, cleanupTimer, destroyed>>
  /\ UNCHANGED <<wsVars, adVars, mwVars, bpVars, meterVars>>

(* A timer handle that clearInterval leaves armed.                         *)
clearIntervalKeepsTimer(timer) == timer

(* clearInterval(this.cleanupTimer): a running timer never fires again;    *)
(* the field keeps its handle, and clearing a cleared handle does nothing. *)
clearInterval(timer) == IF timer = "running" THEN "cleared" ELSE timer

(* destroy(): if (this.cleanupTimer) clearInterval(this.cleanupTimer).     *)
(* Without a timer the call does nothing and returns.                      *)
destroy ==
  /\ cleanupTimer' = IF cleanupTimer # "none" THEN clearInterval(cleanupTimer)
                                              ELSE cleanupTimer
  /\ destroyed' = TRUE
  /\ UNCHANGED <<rlVars, bucketTTL, swept>>
  /\ UNCHANGED <<wsVars, adVars, mwVars, bpVars, meterVars>>

(* options.x ?? default                                                    *)
Given(v) == [given |-> TRUE, value |-> v]
OrDefault(option, default) == IF option.given THEN option.value ELSE default

NotGiven(v) == [given |-> FALSE, value |-> v]

(* The cost, statusCode and message options the constructor is called      *)
(* with: any cost with the default reply, and a fixed cost with a reply of *)
(* its own.                                                                *)
ConstructorOptions ==
  { [cost |-> c, statusCode |-> NotGiven(0), message |-> NotGiven("")] :
      c \in {FixedCost(n) : n \in 0..MaxCost} \cup {CostFn} }
  \cup { [cost |-> FixedCost(MaxCost), statusCode |-> Given(503),
          message |-> Given("Slow down")] }

RLIdle ==
  /\ capacity = 0 /\ refillRate = 0 /\ cost = FixedCost(0)
  /\ statusCode = DefaultStatusCode /\ message = DefaultMessage
  /\ buckets = [k \in Keys |-> NoBucket]
  /\ peerBuckets = [k \in Keys |-> NoBucket]
  /\ now = 0
  /\ rlLast = NoCall
  /\ rlBurst = [k \in Keys |-> NoBurst]

(* The capacity and refillRate options: every pair that is not negative,   *)
(* a negative capacity, and a negative refill rate.                        *)
ConfigPairs ==
  ((0..MaxCapacity) \X (0..MaxRefillRate))
  \cup {<<ConfigFloor, MaxRefillRate>>, <<MaxCapacity, ConfigFloor>>}

RLConstructed ==
  /\ \E pair \in ConfigPairs : capacity = pair[1] /\ refillRate = pair[2]
  /\ \E o \in ConstructorOptions :
       /\ cost = o.cost
       /\ statusCode = OrDefault(o.statusCode, DefaultStatusCode)
       /\ message = OrDefault(o.message, DefaultMessage)
  /\ buckets = [k \in Keys |-> NoBucket]
  /\ peerBuckets = [k \in Keys |-> NoBucket]
  /\ now = 0
  /\ rlLast = NoCall
  /\ rlBurst = [k \in Keys |-> NoBurst]


-----------------------------------------------------------------------------
(* HonoWebsocketAdapter: namespace registry, connection tracking, limits   *)
(* and heartbeat timers.                                                   *)

Namespaces == {"chat", "news"}
Services == {"s1", "s2", "s4", "s5"}
NoService == "none"

(* The services of the "chat" namespace; the services registerWebSocket    *)
(* refuses are inputs of the registry specification only.                  *)
ChatServices == {"s1", "s2"}

(* A namespace no connection asks for, with a character of every class    *)
(* the namespace format allows.                                            *)
FeedNamespace == "V1/live_feed-2"

(* The keys this.websockets can hold.                                      *)
RegistryKeys == Namespaces \cup {FeedNamespace}

(* service.namespace: s1 and s2 both serve "chat"; s4's namespace has a    *)
(* character outside [a-zA-Z0-9\-_/], s5 has none; s3 serves the feed and  *)
(* s6 has a dot in its namespace.                                          *)
SvcNamespace(svc) ==
  CASE svc = "s1" -> "chat"
    [] svc = "s2" -> "chat"
    [] svc = "s3" -> FeedNamespace
    [] svc = "s4" -> "bad ns!"
    [] svc = "s6" -> "chat.v2"
    [] OTHER -> ""

(* The characters of a namespace, as UTF-16 code units.                    *)
NamespaceChars(ns) ==
  CASE ns = "chat" -> <<99, 104, 97, 116>>
    [] ns = "news" -> <<110, 101, 119, 115>>
    [] ns = FeedNamespace ->
         <<86, 49, 47, 108, 105, 118, 101, 95, 102, 101, 101, 100, 45, 50>>
    [] ns = "bad ns!" -> <<98, 97, 100, 32, 110, 115, 33>>
    [] ns = "chat.v2" -> <<99, 104, 97, 116, 46, 118, 50>>
    [] OTHER -> <<>>

(* The class [a-zA-Z0-9\-_\/]                                              *)
InNamespaceClass(ch) ==
  \/ ch \in 97..122
  \/ ch \in 65..90
  \/ ch \in 48..57
  \/ ch \in {45, 95, 47}

NamespaceFormatOkLowercase(ns) ==
  LET chars == NamespaceChars(ns)
  IN Len(chars) >= 1 /\ \A i \in 1..Len(chars) : chars[i] \in 97..122

(* namespace.match(/^[a-zA-Z0-9\-_\/]+$/)                                  *)
NamespaceFormatOk(ns) ==
  LET chars == NamespaceChars(ns)
  IN Len(chars) >= 1 /\ \A i \in 1..Len(chars) : InNamespaceClass(chars[i])

(* Connection ids (bun.randomUUIDv7(): no two connections share one).      *)
Conns == {"c1", "c2"}

(* ws.data.path, set at the upgrade ("" before the connection exists).     *)
ConnPath(c) == conn[c].path

NoLimit == 0

(* logged: what createHandler last passed to logger.error for the socket;  *)
(* notified: ws.send of the error notification was called; pinged: ws.ping *)
(* was called.                                                             *)
NewConn == [st |-> "new", path |-> "", code |-> 0, reason |-> "", admitted |-> FALSE,
            overLimit |-> FALSE, openCalled |-> FALSE, closeCalled |-> FALSE,
            timerAtClose |-> FALSE, userCode |-> 0, userReason |-> "",
            logged |-> "", notified |-> FALSE, pinged |-> FALSE]

NoWsCall == [svc |-> NoService, latest |-> NoService, n |-> 0]

getConnectionCount(ns) == Cardinality(activeConnections[ns])

LimitReachedStrict(ns) ==
  connectionLimits[ns] # NoLimit /\ getConnectionCount(ns) > connectionLimits[ns]

(* limit && currentCount >= limit                                          *)
LimitReached(ns) ==
  connectionLimits[ns] # NoLimit /\ getConnectionCount(ns) >= connectionLimits[ns]

(* ws.close(code, reason) on a socket: the close event follows.            *)
WsCloseSocket(cr, code, reason) ==
  [cr EXCEPT !.st = "closing", !.code = code, !.reason = reason]

stopHeartbeatKeepsTimer(timers, c) == timers

(* clearInterval(interval); this.heartbeatIntervals.delete(connectionId)   *)
stopHeartbeat(timers, c) == timers \ {c}

RegistryKeepFirst(reg, ns, svc) ==
  IF reg[ns] # NoService THEN reg ELSE [reg EXCEPT ![ns] = svc]

(* this.websockets.set(namespace, webSocketService)                        *)
RegistrySet(reg, ns, svc) == [reg EXCEPT ![ns] = svc]

OpenOrConnectingNever(st) == FALSE

(* ws.readyState === WebSocket.OPEN || ws.readyState === WebSocket.CONNECTING *)
OpenOrConnecting(st) == st \in {"open", "new"}

ClosesOnAnyError(type) == TRUE

(* type === 'onOpenInternal' || type === 'onMessage'                       *)
ClosesOnError(type) == type \in {"open", "message"}

(* createHandler(type)(ws, ...args): look the service up by ws.data.path   *)
(* and call its hook.  outcome is what the hook does: "ok", "throw", or    *)
(* "nohook" when the service has no such hook.  timers is the heartbeat    *)
(* timers held at the call.  The socket after the call:                    *)
SocketAfterHandler(cr, c, type, outcome, timers) ==
  LET svc == websockets[cr.path]
      isOpen == cr.st = "open"
  IN IF svc = NoService
     THEN LET missing == [cr EXCEPT !.logged = "handler not found"]
          IN IF OpenOrConnecting(cr.st)
             THEN WsCloseSocket(missing, 1011, "Internal server error: handler not found")
             ELSE missing
     ELSE IF outcome = "nohook" THEN cr
     ELSE LET called ==
                IF type = "open" THEN [cr EXCEPT !.openCalled = TRUE]
                ELSE IF type = "close"
                THEN [cr EXCEPT !.closeCalled = TRUE, !.timerAtClose = c \in timers,
                                !.userCode = cr.code, !.userReason = cr.reason]
                ELSE cr
              caught == [called EXCEPT !.logged = "handler error",
                                       !.notified = @ \/ isOpen]
          IN IF outcome # "throw" THEN called
             ELSE IF ClosesOnError(type) /\ isOpen
             THEN WsCloseSocket(caught, 1011, "Handler error")
             ELSE caught

(* ... and the service the hook was called on.                             *)
CallAfterHandler(ns, outcome) ==
  LET svc == websockets[ns]
  IN IF svc = NoService \/ outcome = "nohook"
     THEN wsLastCall
     ELSE [svc |-> svc, latest |-> wsLatest[ns].svc, n |-> wsLatest[ns].n]

Outcomes == {"ok", "throw", "nohook"}

(* The events after open: message, drain, ping and pong.                   *)
EventTypes == {"message", "drain", "ping", "pong"}

(* The error setConnectionLimit throws ("none" if none).                   *)
setConnectionLimitError(limit) ==
  IF limit < 1 THEN "Connection limit must be at least 1" ELSE "none"

setConnectionLimit(ns, limit) ==
  /\ IF setConnectionLimitError(limit) # "none"
     THEN UNCHANGED connectionLimits
     ELSE connectionLimits' = [connectionLimits EXCEPT ![ns] = limit]
  /\ UNCHANGED <<websockets, activeConnections, heartbeatIntervals, heartbeatInterval,
                 wsPrepared, conn, wsWarnings, wsLatest, wsLastCall, wsThrown>>
  /\ UNCHANGED <<rlVars, adVars, restVars>>

(* A shutdown that forgets the connections but leaves their timers armed.  *)
shutdownKeepsTimers ==
  /\ activeConnections' = [ns \in Namespaces |-> {}]
  /\ UNCHANGED <<websockets, connectionLimits, heartbeatIntervals, heartbeatInterval,
                 wsPrepared, conn, wsWarnings, wsLatest, wsLastCall, wsThrown>>
  /\ UNCHANGED <<rlVars, adVars, restVars>>

(* shutdown(): the heartbeat timers are cleared and the tracking emptied;  *)
(* no socket is closed.                                                    *)
shutdown ==
  /\ heartbeatIntervals' = {}
  /\ activeConnections' = [ns \in Namespaces |-> {}]
  /\ UNCHANGED <<websockets, connectionLimits, heartbeatInterval, wsPrepared, conn,
                 wsWarnings, wsLatest, wsLastCall, wsThrown>>
  /\ UNCHANGED <<rlVars, adVars, restVars>>

(* The error registerWebSocket throws ("none" if none).                    *)
registerWebSocketError(svc) ==
  IF svc = NoService THEN "WebSocket service is required"
  ELSE IF SvcNamespace(svc) = "" THEN "WebSocket namespace is required"
  ELSE IF ~NamespaceFormatOk(SvcNamespace(svc)) THEN "Invalid WebSocket namespace format"
  ELSE "none"

(* The body of registerWebSocket: what it does to the registry.             *)
registerWebSocketBody(svc) ==
  LET ns == SvcNamespace(svc) IN
  /\ wsThrown' = registerWebSocketError(svc)
  /\ IF registerWebSocketError(svc) # "none"
     THEN UNCHANGED <<websockets, wsWarnings, wsLatest>>
     ELSE /\ wsWarnings' =
               IF websockets[ns] # NoService
               THEN wsWarnings \cup {[kind |-> "duplicate", ns |-> ns, conn |-> ""]}
               ELSE wsWarnings
          /\ websockets' = RegistrySet(websockets, ns, svc)
          /\ wsLatest' = [wsLatest EXCEPT ![ns] = [svc |-> svc, n |-> Min(@.n + 1, 2)]]

registerWebSocket(svc) ==
  /\ registerWebSocketBody(svc)
  /\ UNCHANGED <<activeConnections, connectionLimits, heartbeatIntervals,
                 heartbeatInterval, wsPrepared, conn, wsLastCall>>
  /\ UNCHANGED <<rlVars, adVars, restVars>>

(* The body of prepareWebSocket: it returns early while no service is       *)
(* registered, and builds the event handlers otherwise.                    *)
prepareWebSocketBody(interval) ==
  IF \A ns \in RegistryKeys : websockets[ns] = NoService
  THEN UNCHANGED <<wsPrepared, heartbeatInterval>>
  ELSE /\ wsPrepared' = TRUE
       /\ heartbeatInterval' = interval

prepareWebSocket(interval) ==
  /\ prepareWebSocketBody(interval)
  /\ UNCHANGED <<websockets, activeConnections, connectionLimits, heartbeatIntervals,
                 conn, wsWarnings, wsLatest, wsLastCall, wsThrown>>
  /\ UNCHANGED <<rlVars, adVars, restVars>>

(* websocket.open                                                          *)
WsOpen(c, ns, outcome) ==
  LET over == connectionLimits[ns] # NoLimit
              /\ Cardinality(activeConnections[ns]) >= connectionLimits[ns]
      opened == [conn[c] EXCEPT !.st = "open", !.path = ns, !.overLimit = over]
  IN
  /\ wsPrepared /\ conn[c].st = "new"
  /\ IF LimitReached(ns)
     THEN /\ wsWarnings' = wsWarnings \cup {[kind |-> "limit", ns |-> ns, conn |-> c]}
          /\ conn' = [conn EXCEPT ![c] =
                        WsCloseSocket(opened, 1008, "Connection limit reached")]
          /\ UNCHANGED <<activeConnections, heartbeatIntervals, wsLastCall>>
     ELSE LET timers == IF heartbeatInterval # 0
                        THEN heartbeatIntervals \cup {c}
                        ELSE heartbeatIntervals
          IN /\ activeConnections' = [activeConnections EXCEPT ![ns] = @ \cup {c}]
             /\ heartbeatIntervals' = timers
             /\ conn' = [conn EXCEPT ![c] =
                           SocketAfterHandler([opened EXCEPT !.admitted = TRUE],
                                              c, "open", outcome, timers)]
             /\ wsLastCall' = CallAfterHandler(ns, outcome)
             /\ UNCHANGED wsWarnings
  /\ UNCHANGED <<websockets, connectionLimits, heartbeatInterval, wsPrepared, wsLatest>>
  /\ UNCHANGED <<wsThrown, rlVars, adVars, restVars>>

(* websocket.message, drain, ping, pong                                    *)
WsEvent(c, type, outcome) ==
  /\ wsPrepared /\ conn[c].st = "open"
  /\ conn' = [conn EXCEPT ![c] =
                SocketAfterHandler(conn[c], c, type, outcome, heartbeatIntervals)]
  /\ wsLastCall' = CallAfterHandler(ConnPath(c), outcome)
  /\ UNCHANGED <<websockets, activeConnections, connectionLimits, heartbeatIntervals,
                 heartbeatInterval, wsPrepared, wsWarnings, wsLatest>>
  /\ UNCHANGED <<wsThrown, rlVars, adVars, restVars>>

(* websocket.close: the peer closed an open socket (1000), or the close    *)
(* that ws.close(code, reason) started completes.                          *)
WsClose(c, outcome) ==
  LET ns == ConnPath(c)
      code == IF conn[c].st = "open" THEN 1000 ELSE conn[c].code
      reason == IF conn[c].st = "open" THEN "" ELSE conn[c].reason
      timers == stopHeartbeat(heartbeatIntervals, c)
      closed == [conn[c] EXCEPT !.st = "closed", !.code = code, !.reason = reason]
  IN
  /\ wsPrepared /\ conn[c].st \in {"open", "closing"}
  /\ heartbeatIntervals' = timers
  /\ activeConnections' = [activeConnections EXCEPT ![ns] = @ \ {c}]
  /\ conn' = [conn EXCEPT ![c] = SocketAfterHandler(closed, c, "close", outcome, timers)]
  /\ wsLastCall' = CallAfterHandler(ConnPath(c), outcome)
  /\ UNCHANGED <<websockets, connectionLimits, heartbeatInterval, wsPrepared,
                 wsWarnings, wsLatest>>
  /\ UNCHANGED <<wsThrown, rlVars, adVars, restVars>>

(* One firing of the setInterval callback of startHeartbeat.               *)
HeartbeatTick(c, pingFails) ==
  /\ c \in heartbeatIntervals
  /\ IF conn[c].st = "open"
     THEN IF pingFails
          THEN /\ heartbeatIntervals' = stopHeartbeat(heartbeatIntervals, c)
               /\ conn' = [conn EXCEPT ![c] =
                             WsCloseSocket([@ EXCEPT !.pinged = TRUE],
                                           1011, "Heartbeat failed")]
          ELSE /\ conn' = [conn EXCEPT ![c].pinged = TRUE]
               /\ UNCHANGED heartbeatIntervals
     ELSE /\ heartbeatIntervals' = stopHeartbeat(heartbeatIntervals, c)
          /\ UNCHANGED conn
  /\ UNCHANGED <<websockets, activeConnections, connectionLimits, heartbeatInterval,
                 wsPrepared, wsWarnings, wsLatest, wsLastCall, wsThrown>>
  /\ UNCHANGED <<rlVars, adVars, restVars>>

-----------------------------------------------------------------------------
(* HonoAdapter: deferred route registration.  A path is the sequence       *)
(* path.split('/') yields: "/api/users" is <<"", "api", "users">>, "/" is  *)
(* <<"", "">> and "chat" is <<"chat">>.                                    *)

HttpMethods == {"get", "post", "put", "delete", "patch", "options", "connect", "head", "trace"}

ParamSegments == {":id"}
WildcardSegments == {"*"}

RootPath == <<"", "">>
UsersPath == <<"", "api", "users">>
UserIdPath == <<"", "api", "users", ":id">>
OrdersPath == <<"", "api", "orders">>

(* Declared middleware types.  "A1" and "A2" are two classes that are both *)
(* named AuthMiddleware (declared in different modules).                   *)
MiddlewareTypes == {"A1", "A2", "B", "G", "H", "K"}

(* middleware.constructor.name                                             *)
ConstructorName(mw) ==
  CASE mw \in {"A1", "A2"} -> "AuthMiddleware"
    [] mw = "B" -> "LogMiddleware"
    [] mw = "G" -> "CorsMiddleware"
    [] mw = "K" -> "TokenMiddleware"
    [] OTHER -> "HeaderMiddleware"

NoValidator == "none"

Route(method, path, middlewares, validator) ==
  [method |-> method, path |-> path, middlewares |-> middlewares, validator |-> validator]

(* The routes registerRoute is called with.                                *)
RouteInputs ==
  { Route("get", UsersPath, <<"A1">>, NoValidator),
    Route("get", UserIdPath, <<"A1">>, NoValidator),
    Route("post", UserIdPath, <<"B", "A1">>, "ok"),
    Route("post", UsersPath, <<"A2">>, NoValidator),
    Route("get", OrdersPath, <<>>, NoValidator),
    Route("get", OrdersPath, <<"B">>, "throws") }

(* The WebSocket routes registerWebsocketRoute is called with; the last    *)
(* has no websocketService.                                                *)
WsRouteInputs ==
  { [path |-> <<"chat">>, websocketService |-> "s1", middlewares |-> <<"B">>],
    [path |-> <<"bad ns!">>, websocketService |-> "s4", middlewares |-> <<>>],
    [path |-> <<"news">>, websocketService |-> NoService, middlewares |-> <<>>] }

NoConfig == [present |-> FALSE, hasInclude |-> FALSE, include |-> {}, exclude |-> {}]
Config(hasInclude, include, exclude) ==
  [present |-> TRUE, hasInclude |-> hasInclude, include |-> include, exclude |-> exclude]

(* The (middleware, config) pair use() is called with.                     *)
GlobalInputs ==
  { [middleware |-> "H", config |-> Config(TRUE, {<<"", "api", "users", "*">>}, {})] }

(* A wider set of registrations for the pipeline specification: two routes *)
(* at "/" that share a middleware, and global middlewares without config,  *)
(* with include and exclude lists, and with an include list naming the URL *)
(* of the WebSocket route.                                                 *)
ChatUrl == <<"", "chat">>

PipelineRouteInputs ==
  { Route("get", UsersPath, <<"A1">>, NoValidator),
    Route("post", UserIdPath, <<"B", "A1">>, "ok"),
    Route("post", UsersPath, <<"A2">>, NoValidator),
    Route("get", OrdersPath, <<>>, NoValidator),
    Route("get", RootPath, <<"A1">>, NoValidator),
    Route("post", RootPath, <<"A1">>, NoValidator) }

PipelineWsRouteInputs ==
  { [path |-> <<"chat">>, websocketService |-> "s1", middlewares |-> <<"B">>] }

PipelineGlobalInputs ==
  { [middleware |-> "G", config |-> NoConfig],
    [middleware |-> "H", config |-> Config(TRUE, {<<"", "api", "*">>}, {OrdersPath})],
    [middleware |-> "K", config |-> Config(TRUE, {ChatUrl}, {})] }

Last(seq) == seq[Len(seq)]
Front(seq) == SubSeq(seq, 1, Len(seq) - 1)
IsPrefix(p, seq) == Len(p) <= Len(seq) /\ SubSeq(seq, 1, Len(p)) = p

(* One pattern against a path: a pattern ending in "/*" matches every path *)
(* that begins with the pattern minus its "*"; any other pattern matches   *)
(* only itself.                                                            *)
matchesPattern(path, pattern) ==
  IF Len(pattern) > 1 /\ Last(pattern) = "*"
  THEN Len(path) >= Len(pattern) /\ IsPrefix(Front(pattern), path)
  ELSE path = pattern

shouldApplyMiddleware(path, config) ==
  IF ~config.present THEN TRUE
  ELSE IF \E p \in config.exclude : matchesPattern(path, p) THEN FALSE
  ELSE IF config.hasInclude THEN \E p \in config.include : matchesPattern(path, p)
  ELSE TRUE

RECURSIVE MapMiddleware(_)
MapMiddleware(entries) ==
  IF entries = <<>> THEN <<>>
  ELSE <<Head(entries).middleware>> \o MapMiddleware(Tail(entries))

Reverse(seq) == [i \in 1..Len(seq) |-> seq[Len(seq) + 1 - i]]

getGlobalMiddlewaresUnfiltered(globals, path) == MapMiddleware(globals)

getGlobalMiddlewaresReversed(globals, path) ==
  Reverse(MapMiddleware(SelectSeq(globals, LAMBDA g : shouldApplyMiddleware(path, g.config))))

getGlobalMiddlewaresForPath(globals, path) ==
  MapMiddleware(SelectSeq(globals, LAMBDA g : shouldApplyMiddleware(path, g.config)))

(* The characters of a path segment, as UTF-16 code units; every segment   *)
(* not listed is a plain lowercase word.                                   *)
SegmentChars(segment) ==
  CASE segment = "" -> <<>>
    [] segment = ":id" -> <<58, 105, 100>>
    [] segment = "*" -> <<42>>
    [] segment = "v*" -> <<118, 42>>
    [] segment = "a:b" -> <<97, 58, 98>>
    [] segment = "api" -> <<97, 112, 105>>
    [] OTHER -> <<119>>

Colon == 58
Asterisk == 42

(* A test that looks for '*' at the start of the segment only.             *)
IsDynamicSegmentAtStart(segment) ==
  LET chars == SegmentChars(segment)
  IN Len(chars) > 0 /\ chars[1] \in {Colon, Asterisk}

(* segment.startsWith(':') || segment.includes('*')                        *)
IsDynamicSegment(segment) ==
  LET chars == SegmentChars(segment)
  IN \/ Len(chars) > 0 /\ chars[1] = Colon
     \/ \E i \in 1..Len(chars) : chars[i] = Asterisk

(* The leading segments before the first parameter or wildcard segment.    *)
RECURSIVE BaseSegments(_)
BaseSegments(segments) ==
  IF segments = <<>> THEN <<>>
  ELSE IF IsDynamicSegment(Head(segments)) THEN <<>>
  ELSE <<Head(segments)>> \o BaseSegments(Tail(segments))

extractBasePath(path) ==
  LET normalized == IF Len(path) > 1 /\ Last(path) = "" /\ path # RootPath
                    THEN Front(path) ELSE path
      baseSegments == BaseSegments(normalized)
  IN IF baseSegments = <<>> \/ baseSegments = <<"">> THEN RootPath ELSE baseSegments

Indices(queue) == [i \in 1..Len(queue) |-> i]

(* groupRoutesByBasePath, as queue positions: the first position of every  *)
(* base path in Map insertion order, and the positions sharing a base path.*)
GroupFirsts(queue) ==
  SelectSeq(Indices(queue), LAMBDA i :
    \A j \in 1..(i - 1) : extractBasePath(queue[j].path) # extractBasePath(queue[i].path))

GroupMembers(queue, first) ==
  SelectSeq(Indices(queue), LAMBDA i :
    extractBasePath(queue[i].path) = extractBasePath(queue[first].path))

RoutesAt(queue, members) == [k \in 1..Len(members) |-> queue[members[k]]]

hasSameName(middlewares, mw) ==
  \E j \in DOMAIN middlewares : ConstructorName(middlewares[j]) = ConstructorName(mw)

extractCommonMiddlewares(routes) ==
  IF Len(routes) = 0 THEN <<>>
  ELSE IF Len(routes) = 1 THEN <<>>
  ELSE SelectSeq(routes[1].middlewares, LAMBDA mw :
         \A i \in DOMAIN routes : hasSameName(routes[i].middlewares, mw))

Stage(k, mw, r) == [k |-> k, mw |-> mw, r |-> r]

(* prepareMiddlewares: one pipeline stage per middleware, in order         *)
prepareMiddlewares(middlewares) ==
  [i \in 1..Len(middlewares) |-> Stage("middleware", middlewares[i], 0)]

(* route.validator ? prepareValidator(route.validator) : []                *)
prepareValidator(route, idx) ==
  IF route.validator = NoValidator THEN <<>> ELSE <<Stage("validator", "", idx)>>

prepareHandler(idx) == Stage("handler", "", idx)

(* Registering the route throws: its validator cannot be prepared, or its  *)
(* method has no entry in the method map.                                  *)
RouteThrows(route) == route.validator = "throws" \/ route.method \notin HttpMethods

Entry(kind, method, path, stages, src, via) ==
  [kind |-> kind, method |-> method, path |-> path, stages |-> stages, src |-> src, via |-> via]

Registered(appSeq, ok) == [app |-> appSeq, ok |-> ok]

registerRouteDirect(appSeq, globals, route, idx) ==
  LET allMiddlewares ==
        prepareValidator(route, idx)
        \o prepareMiddlewares(getGlobalMiddlewaresForPath(globals, route.path))
        \o prepareMiddlewares(route.middlewares)
  IN IF RouteThrows(route)
     THEN Registered(appSeq, FALSE)
     ELSE Registered(Append(appSeq, Entry("route", route.method, route.path,
                                          Append(allMiddlewares, prepareHandler(idx)),
                                          idx, "direct")), TRUE)

(* The path of a route inside its group.                                   *)
relativePath(path, basePath) ==
  IF IsPrefix(basePath, path) /\ basePath # RootPath
  THEN IF Len(path) = Len(basePath) THEN RootPath
       ELSE <<"">> \o SubSeq(path, Len(basePath) + 1, Len(path))
  ELSE IF Head(path) = "" /\ Len(path) > 1 THEN path ELSE <<"">> \o path

(* app.route(basePath, group): where a path of the group lands in the app. *)
mountPath(basePath, relative) ==
  IF relative = RootPath THEN basePath
  ELSE IF basePath = RootPath THEN relative
  ELSE basePath \o Tail(relative)

uniqueMiddlewares(route, commonMiddlewares) ==
  SelectSeq(route.middlewares, LAMBDA mw : ~hasSameName(commonMiddlewares, mw))

groupUse(basePath, middlewares) ==
  IF Len(middlewares) > 0
  THEN <<Entry("use", "all", mountPath(basePath, <<"", "*">>),
               prepareMiddlewares(middlewares), 0, "group")>>
  ELSE <<>>

groupRoute(basePath, commonMiddlewares, route, idx) ==
  Entry("route", route.method, mountPath(basePath, relativePath(route.path, basePath)),
        prepareValidator(route, idx)
        \o prepareMiddlewares(uniqueMiddlewares(route, commonMiddlewares))
        \o <<prepareHandler(idx)>>,
        idx, "group")

(* The group is mounted by the last statement: a throw while its routes    *)
(* are built leaves the app without any of them.                           *)
registerRouteGroup(appSeq, globals, basePath, commonMiddlewares, queue, members) ==
  IF \E k \in DOMAIN members : RouteThrows(queue[members[k]])
  THEN Registered(appSeq, FALSE)
  ELSE Registered(appSeq
                  \o groupUse(basePath, getGlobalMiddlewaresForPath(globals, basePath))
                  \o groupUse(basePath, commonMiddlewares)
                  \o [k \in 1..Len(members) |->
                        groupRoute(basePath, commonMiddlewares, queue[members[k]], members[k])],
                  TRUE)

RECURSIVE registerEachDirect(_, _, _, _)
registerEachDirect(appSeq, globals, queue, members) ==
  IF members = <<>> THEN Registered(appSeq, TRUE)
  ELSE LET one == registerRouteDirect(appSeq, globals, queue[Head(members)], Head(members))
       IN IF one.ok THEN registerEachDirect(one.app, globals, queue, Tail(members)) ELSE one

(* The branch of optimizeAndRegisterRoutes: group or register individually.*)
usesGroup(routes, commonMiddlewares) == Len(routes) > 1 /\ Len(commonMiddlewares) > 0

registerPartition(appSeq, globals, queue, first) ==
  LET members == GroupMembers(queue, first)
      routes == RoutesAt(queue, members)
      commonMiddlewares == extractCommonMiddlewares(routes)
  IN IF usesGroup(routes, commonMiddlewares)
     THEN registerRouteGroup(appSeq, globals, extractBasePath(queue[first].path),
                             commonMiddlewares, queue, members)
     ELSE registerEachDirect(appSeq, globals, queue, members)

RECURSIVE registerPartitions(_, _, _, _)
registerPartitions(appSeq, globals, queue, firsts) ==
  IF firsts = <<>> THEN Registered(appSeq, TRUE)
  ELSE LET one == registerPartition(appSeq, globals, queue, Head(firsts))
       IN IF one.ok THEN registerPartitions(one.app, globals, queue, Tail(firsts)) ELSE one

(* app.get(`/${wsRoute.path}`, ...): the global middlewares are chosen for *)
(* wsRoute.path, the route is attached at "/" + wsRoute.path.              *)
registerWebsocketRouteDirect(globals, wsRoute, idx) ==
  Entry("ws", "get", <<"">> \o wsRoute.path,
        prepareMiddlewares(getGlobalMiddlewaresForPath(globals, wsRoute.path))
        \o prepareMiddlewares(wsRoute.middlewares)
        \o <<Stage("upgrade", "", idx)>>,
        idx, "direct")

optimizeAndRegisterRoutes(appSeq, globals, queue, wsQueue) ==
  LET http == registerPartitions(appSeq, globals, queue, GroupFirsts(queue))
  IN IF http.ok
     THEN Registered(http.app \o [j \in 1..Len(wsQueue) |->
                                    registerWebsocketRouteDirect(globals, wsQueue[j], j)],
                     TRUE)
     ELSE http

(* How the Hono app serves a request: the stages of every attached entry   *)
(* that matches, in attachment order, run until one answers.               *)
Request(method, path) == [method |-> method, path |-> path]

(* A request that targets a route: parameters and wildcards filled in.     *)
RequestFor(route) ==
  Request(route.method,
          [i \in 1..Len(route.path) |->
             IF route.path[i] \in ParamSegments THEN "42"
             ELSE IF route.path[i] \in WildcardSegments THEN "x"
             ELSE route.path[i]])

entryMatches(entry, req) ==
  IF entry.kind = "use"
  THEN IsPrefix(Front(entry.path), req.path)
  ELSE /\ entry.method = req.method
       /\ Len(entry.path) = Len(req.path)
       /\ \A i \in 1..Len(entry.path) :
            \/ entry.path[i] = req.path[i]
            \/ entry.path[i] \in ParamSegments \cup WildcardSegments

RECURSIVE FlattenStages(_)
FlattenStages(entries) ==
  IF entries = <<>> THEN <<>>
  ELSE Head(entries).stages \o FlattenStages(Tail(entries))

MatchedStages(appSeq, req) ==
  FlattenStages(SelectSeq(appSeq, LAMBDA entry : entryMatches(entry, req)))

NoStage == Stage("none", "", 0)

(* The stages that run, in order, when stage `stop` answers without        *)
(* calling next (NoStage: every middleware and validator calls next); a    *)
(* handler always answers.  The last stage that ran made the response.     *)
RECURSIVE Executes(_, _)
Executes(stages, stop) ==
  IF stages = <<>> THEN <<>>
  ELSE IF Head(stages) = stop \/ Head(stages).k \in {"handler", "upgrade"}
       THEN <<Head(stages)>>
       ELSE <<Head(stages)>> \o Executes(Tail(stages), stop)

(* if (!this.routesRegistered)                                             *)
NeedsRegistration == ~routesRegistered

use(entry) ==
  /\ Len(globalMiddlewares) < MaxGlobals
  /\ globalMiddlewares' = Append(globalMiddlewares, entry)
  /\ UNCHANGED <<routeQueue, wsRouteQueue, routesRegistered, app, startCalls, startFailed>>
  /\ UNCHANGED <<rlVars, wsVars, restVars>>

registerRoute(params) ==
  /\ Len(routeQueue) < MaxRoutes
  /\ routeQueue' = Append(routeQueue, params)
  /\ UNCHANGED <<wsRouteQueue, globalMiddlewares, routesRegistered, app, startCalls,
                 startFailed>>
  /\ UNCHANGED <<rlVars, wsVars, restVars>>

(* The route is queued before the service is registered, so it stays       *)
(* queued when registerWebSocket throws.                                   *)
registerWebsocketRoute(params) ==
  /\ Len(wsRouteQueue) < MaxWsRoutes
  /\ wsRouteQueue' = Append(wsRouteQueue, params)
  /\ IF params.websocketService # NoService
     THEN registerWebSocketBody(params.websocketService)
     ELSE UNCHANGED <<websockets, wsWarnings, wsLatest, wsThrown>>
  /\ UNCHANGED <<routeQueue, globalMiddlewares, routesRegistered, app, startCalls,
                 startFailed>>
  /\ UNCHANGED <<activeConnections, connectionLimits, heartbeatIntervals,
                 heartbeatInterval, wsPrepared, conn, wsLastCall>>
  /\ UNCHANGED <<rlVars, restVars>>

(* start(): serveOptions() was not called, so wsOptions is undefined.      *)
start ==
  LET done == optimizeAndRegisterRoutes(app, globalMiddlewares, routeQueue, wsRouteQueue)
      threw == NeedsRegistration /\ ~done.ok
  IN
  /\ startCalls < MaxStarts
  /\ startCalls' = startCalls + 1
  /\ app' = IF NeedsRegistration THEN done.app ELSE app
  /\ routesRegistered' = (routesRegistered \/ ~threw)
  /\ startFailed' = (startFailed \/ threw)
  /\ IF threw
     THEN UNCHANGED <<wsPrepared, heartbeatInterval>>
     ELSE prepareWebSocketBody(0)
  /\ UNCHANGED <<routeQueue, wsRouteQueue, globalMiddlewares>>
  /\ UNCHANGED <<websockets, activeConnections, connectionLimits, heartbeatIntervals,
                 conn, wsWarnings, wsLatest, wsLastCall, wsThrown>>
  /\ UNCHANGED <<rlVars, restVars>>

ADConstructed ==
  /\ routeQueue = <<>>
  /\ wsRouteQueue = <<>>
  /\ globalMiddlewares = <<>>
  /\ routesRegistered = FALSE
  /\ app = <<>>
  /\ startCalls = 0
  /\ startFailed = FALSE

ADIdle == ADConstructed

-----------------------------------------------------------------------------
(* middlewareParser (src/lib/utils/middlewareParser.ts): one request going  *)
(* through a chain of parsed middlewares and then the route handler.       *)
(* A middleware is [override, callsNext, result]: whether it asked for the *)
(* raw context, whether its handle awaits next(), and how its handle ends  *)
(* (a thrown error, or the kind of value it returns).                      *)

HandleResults == {"false", "response", "true", "undefined", "throw"}

Middlewares == [override : BOOLEAN, callsNext : BOOLEAN, result : HandleResults]

RECURSIVE ChainsOf(_)
ChainsOf(n) ==
  IF n = 0 THEN {<<>>}
  ELSE ChainsOf(n - 1)
       \cup {Append(ch, m) : ch \in {c \in ChainsOf(n - 1) : Len(c) = n - 1},
                             m \in Middlewares}

Chains == ChainsOf(MaxChain)

(* What a stage gave back to the transport: a value of some kind, or an    *)
(* error; `by` is the stage whose handle made the Response or the Error    *)
(* object (0 for a value that has no identity).                            *)
Returned(kind, by) == [threw |-> FALSE, kind |-> kind, by |-> by]

Threw(by) == [threw |-> TRUE, kind |-> "error", by |-> by]

Pending == [threw |-> FALSE, kind |-> "pending", by |-> 0]

(* What middleware.handle of stage i does. *)
HandleOutcome(m, i) ==
  IF m.result = "throw" THEN Threw(i)
  ELSE Returned(m.result, IF m.result = "response" THEN i ELSE 0)

ParsedSwallowsError(m, i) ==
  IF m.result = "throw" THEN Returned("undefined", 0)
  ELSE IF m.override THEN HandleOutcome(m, i)
  ELSE IF m.result = "response" THEN HandleOutcome(m, i)
  ELSE Returned("undefined", 0)

ParsedDropsResponse(m, i) ==
  IF m.result = "throw" THEN HandleOutcome(m, i)
  ELSE IF m.override THEN HandleOutcome(m, i)
  ELSE Returned("undefined", 0)

(* The function middlewareParser builds for middleware m: the override one *)
(* hands back whatever handle gave; the other one rethrows the error,      *)
(* returns a Response as it is and returns nothing for any other value.    *)
ParsedOutcome(m, i) ==
  IF m.result = "throw" THEN HandleOutcome(m, i)
  ELSE IF m.override THEN HandleOutcome(m, i)
  ELSE IF m.result = "response" THEN HandleOutcome(m, i)
  ELSE Returned("undefined", 0)

NextCalledUnlessFalse(m) == m.callsNext \/ m.result = "false"

(* next() is called for stage m only by its handle: the built function     *)
(* has no call of next of its own, whatever handle returned.               *)
NextCalled(m) == m.callsNext

Raw == 0 - 1

(* The context a non-override middleware is given: the stored wrapper, or  *)
(* a new one, which is then stored.                                        *)
WrapperFor(store, created) == IF store = 0 THEN created + 1 ELSE store

StageOf(received, m, i) ==
  [received |-> received,
   state |-> IF NextCalled(m) THEN "awaiting" ELSE "done",
   outcome |-> IF NextCalled(m) THEN Pending ELSE ParsedOutcome(m, i)]

(* The dispatch can go one stage deeper: nothing ran yet, or the deepest   *)
(* stage is inside its next() call.                                        *)
CanDispatch ==
  IF Len(mwStages) = 0 THEN TRUE ELSE mwStages[Len(mwStages)].state = "awaiting"

(* The transport calls the next parsed middleware, which runs up to its    *)
(* next() call or, without one, to its end.                                *)
DispatchMiddleware ==
  /\ Len(mwStages) < Len(mwChain)
  /\ CanDispatch
  /\ LET i == Len(mwStages) + 1
         m == mwChain[i]
     IN IF m.override
        THEN /\ mwStages' = Append(mwStages, StageOf(Raw, m, i))
             /\ UNCHANGED <<mwStore, mwWrappers>>
        ELSE /\ mwStages' = Append(mwStages,
                                   StageOf(WrapperFor(mwStore, mwWrappers), m, i))
             /\ mwStore' = WrapperFor(mwStore, mwWrappers)
             /\ mwWrappers' = IF mwStore = 0 THEN mwWrappers + 1 ELSE mwWrappers
  /\ UNCHANGED mwChain
  /\ UNCHANGED <<rlVars, wsVars, adVars, cleanupVars, bpVars, meterVars>>

(* The transport calls the route handler prepareHandler built: it wraps    *)
(* the context in a new HonoContextWrapper and answers.                    *)
DispatchHandler ==
  /\ Len(mwStages) = Len(mwChain)
  /\ CanDispatch
  /\ mwStages' = Append(mwStages,
                        [received |-> mwWrappers + 1, state |-> "done",
                         outcome |-> Returned("response", Len(mwChain) + 1)])
  /\ mwWrappers' = mwWrappers + 1
  /\ UNCHANGED <<mwChain, mwStore>>
  /\ UNCHANGED <<rlVars, wsVars, adVars, cleanupVars, bpVars, meterVars>>

(* next() resolves for the deepest stage that waits for it, and its handle *)
(* runs to its end.                                                        *)
ResumeMiddleware ==
  /\ \E i \in 1..Len(mwStages) :
       /\ i < Len(mwStages)
       /\ mwStages[i].state = "awaiting"
       /\ mwStages[i + 1].state = "done"
       /\ mwStages' = [mwStages EXCEPT ![i] =
                         [@ EXCEPT !.state = "done",
                                   !.outcome = ParsedOutcome(mwChain[i], i)]]
  /\ UNCHANGED <<mwChain, mwStore, mwWrappers>>
  /\ UNCHANGED <<rlVars, wsVars, adVars, cleanupVars, bpVars, meterVars>>

MWConstructed ==
  /\ mwChain \in Chains
  /\ mwStore = 0
  /\ mwWrappers = 0
  /\ mwStages = <<>>

MWIdle ==
  /\ mwChain = <<>>
  /\ mwStore = 0
  /\ mwWrappers = 0
  /\ mwStages = <<>>

(* The cleanup of a rate limiter built with cleanupInterval 0.             *)
CleanupIdle ==
  /\ bucketTTL = DefaultBucketTTL
  /\ cleanupTimer = "none"
  /\ swept = {}
  /\ destroyed = FALSE

NoBasePath == <<>>

(* No call of extractBasePath on its own.                                  *)
BPIdle ==
  /\ bpPath = RootPath
  /\ bpResult = NoBasePath

MeterIdle == acceptedCost = [k \in Keys |-> 0]

RestIdle == MWIdle /\ CleanupIdle /\ BPIdle /\ MeterIdle

-----------------------------------------------------------------------------
(* Initial states and specification of the WebSocket adapter.              *)

WSConstructed ==
  /\ websockets = [ns \in RegistryKeys |-> NoService]
  /\ activeConnections = [ns \in Namespaces |-> {}]
  /\ connectionLimits = [ns \in Namespaces |-> NoLimit]
  /\ heartbeatIntervals = {}
  /\ heartbeatInterval = 0
  /\ wsPrepared = FALSE
  /\ conn = [c \in Conns |-> NewConn]
  /\ wsWarnings = {}
  /\ wsLatest = [ns \in RegistryKeys |-> [svc |-> NoService, n |-> 0]]
  /\ wsLastCall = NoWsCall
  /\ wsThrown = "none"

WSIdle == WSConstructed

InitWS == WSConstructed /\ RLIdle /\ ADIdle /\ RestIdle

NextWS ==
  \/ \E ns \in Namespaces, limit \in 0..MaxLimit : setConnectionLimit(ns, limit)
  \/ shutdown
  \/ \E svc \in ChatServices : registerWebSocket(svc)
  \/ \E interval \in {0, HeartbeatMs} : prepareWebSocket(interval)
  \/ \E c \in Conns, ns \in Namespaces, outcome \in Outcomes : WsOpen(c, ns, outcome)
  \/ \E c \in Conns, type \in {"message", "pong"}, outcome \in Outcomes :
       WsEvent(c, type, outcome)
  \/ \E c \in Conns, outcome \in Outcomes : WsClose(c, outcome)

SpecWS == InitWS /\ [][NextWS]_vars

(* The events of the connections of a prepared adapter, of every type and  *)
(* with every outcome of the user hook, without limits and shutdown.       *)
NextEvents ==
  \/ registerWebSocket("s1")
  \/ prepareWebSocket(0)
  \/ \E c \in Conns, ns \in Namespaces, outcome \in Outcomes : WsOpen(c, ns, outcome)
  \/ \E c \in Conns, type \in EventTypes, outcome \in Outcomes :
       WsEvent(c, type, outcome)
  \/ \E c \in Conns, outcome \in Outcomes : WsClose(c, outcome)

SpecEvents == InitWS /\ [][NextEvents]_vars

(* The heartbeat: connections of a prepared adapter and their timers.      *)
NextHeartbeat ==
  \/ registerWebSocket("s1")
  \/ \E interval \in {0, HeartbeatMs} : prepareWebSocket(interval)
  \/ \E c \in Conns, ns \in Namespaces, outcome \in Outcomes : WsOpen(c, ns, outcome)
  \/ \E c \in Conns : WsClose(c, "ok")
  \/ \E c \in Conns, pingFails \in BOOLEAN : HeartbeatTick(c, pingFails)
  \/ shutdown

SpecHeartbeat == InitWS /\ [][NextHeartbeat]_vars

(* Registrations alone, with every kind of service.                        *)
RegistryInputs == Services \cup {"s3", "s6", NoService}

NextRegistry ==
  \/ \E svc \in RegistryInputs : registerWebSocket(svc)
  \/ \E ns \in Namespaces, limit \in 0..MaxLimit : setConnectionLimit(ns, limit)
  \/ \E interval \in {0, HeartbeatMs} : prepareWebSocket(interval)

SpecRegistry == InitWS /\ [][NextRegistry]_vars

-----------------------------------------------------------------------------
(* Claims about the WebSocket adapter, checked under SpecWS.               *)

(* C6: a connection whose open event found the namespace's active count at *)
(* or above its limit is closed with 1008 "Connection limit reached", a    *)
(* warning is logged, and it never enters OPEN: its id is never in the     *)
(* active set, it never holds a heartbeat timer and the user open handler  *)
(* is never invoked for it.                                                *)
C6_LimitRejects ==
  \A c \in Conns :
    conn[c].overLimit =>
      /\ conn[c].st \in {"closing", "closed"}
      /\ conn[c].code = 1008 /\ conn[c].reason = "Connection limit reached"
      /\ [kind |-> "limit", ns |-> ConnPath(c), conn |-> c] \in wsWarnings
      /\ c \notin activeConnections[ConnPath(c)]
      /\ c \notin heartbeatIntervals
      /\ ~conn[c].openCalled

C6_Witness ==
  \E c, d \in Conns :
    /\ conn[c].overLimit /\ conn[c].st = "closed"
    /\ d \in activeConnections[ConnPath(c)] /\ d \in heartbeatIntervals

(* C7: an open event below the limit adds the id and raises the count by   *)
(* one; the close event of a connection that was opened lowers the count   *)
(* by one and leaves no heartbeat timer for the id, and the user close     *)
(* handler is invoked after that, with the event's code and reason.        *)
C7_OpenAddsCloseRemoves ==
  [][\A c \in Conns :
       LET ns == conn'[c].path
           over == connectionLimits[ns] # NoLimit
                   /\ Cardinality(activeConnections[ns]) >= connectionLimits[ns]
       IN /\ (conn[c].st = "new" /\ conn'[c].st # "new" /\ ~over) =>
               /\ c \in activeConnections'[ns]
               /\ Cardinality(activeConnections'[ns]) = Cardinality(activeConnections[ns]) + 1
          /\ (conn[c].admitted /\ conn[c].st # "closed" /\ conn'[c].st = "closed") =>
               /\ Cardinality(activeConnections'[ns]) = Cardinality(activeConnections[ns]) - 1
               /\ c \notin heartbeatIntervals'
               /\ conn'[c].closeCalled =>
                    /\ ~conn'[c].timerAtClose
                    /\ conn'[c].userCode = conn'[c].code
                    /\ conn'[c].userReason = conn'[c].reason
    ]_vars

(* C7, for the close event of a connection whose id is still tracked: the  *)
(* part of C7 that the adapter does keep.                                  *)
C7_TrackedClose ==
  [][\A c \in Conns :
       LET ns == conn'[c].path
           over == connectionLimits[ns] # NoLimit
                   /\ Cardinality(activeConnections[ns]) >= connectionLimits[ns]
       IN /\ (conn[c].st = "new" /\ conn'[c].st # "new" /\ ~over) =>
               /\ c \in activeConnections'[ns]
               /\ Cardinality(activeConnections'[ns]) = Cardinality(activeConnections[ns]) + 1
          /\ (conn[c].st \in {"open", "closing"} /\ c \in activeConnections[ns]
                /\ conn'[c].st = "closed") =>
               /\ Cardinality(activeConnections'[ns]) = Cardinality(activeConnections[ns]) - 1
               /\ c \notin heartbeatIntervals'
               /\ conn'[c].closeCalled =>
                    /\ ~conn'[c].timerAtClose
                    /\ conn'[c].userCode = conn'[c].code
                    /\ conn'[c].userReason = conn'[c].reason
    ]_vars

(* C8: a second registration under a registered namespace logs a warning,  *)
(* and the namespace then resolves to the service registered last: every   *)
(* user hook runs on the service of the latest registration.               *)
C8_DuplicateOverwrites ==
  /\ \A ns \in Namespaces :
       /\ websockets[ns] = wsLatest[ns].svc
       /\ wsLatest[ns].n >= 2 <=>
            [kind |-> "duplicate", ns |-> ns, conn |-> ""] \in wsWarnings
  /\ wsLastCall.svc = wsLastCall.latest

C8_Witness ==
  /\ websockets["chat"] = "s2"
  /\ [kind |-> "duplicate", ns |-> "chat", conn |-> ""] \in wsWarnings
  /\ wsLastCall.svc = "s2" /\ wsLastCall.n = 2
  /\ \E c \in Conns : conn[c].openCalled /\ conn[c].st = "open"

-----------------------------------------------------------------------------
(* The adapter's specification.                                            *)

InitRoute == ADConstructed /\ WSConstructed /\ RLIdle /\ RestIdle

NextRoute ==
  \/ \E entry \in GlobalInputs : use(entry)
  \/ \E params \in RouteInputs : registerRoute(params)
  \/ \E params \in WsRouteInputs : registerWebsocketRoute(params)
  \/ start

SpecRoute == InitRoute /\ [][NextRoute]_vars

-----------------------------------------------------------------------------
(* Claims about the adapter, checked under SpecRoute.                      *)

Range(seq) == {seq[i] : i \in DOMAIN seq}

(* The app holds exactly what one clean registration of the present queues *)
(* under the present global middlewares attaches.                          *)
RegisteredFromQueues ==
  /\ routesRegistered /\ ~startFailed
  /\ optimizeAndRegisterRoutes(<<>>, globalMiddlewares, routeQueue, wsRouteQueue)
       = Registered(app, TRUE)

(* The app the same queues give when every partition's routes are          *)
(* registered directly, partition by partition.                            *)
RECURSIVE PartitionOrder(_, _)
PartitionOrder(queue, firsts) ==
  IF firsts = <<>> THEN <<>>
  ELSE GroupMembers(queue, Head(firsts)) \o PartitionOrder(queue, Tail(firsts))

DirectApp ==
  registerEachDirect(<<>>, globalMiddlewares, routeQueue,
                     PartitionOrder(routeQueue, GroupFirsts(routeQueue))).app
  \o [j \in 1..Len(wsRouteQueue) |->
        registerWebsocketRouteDirect(globalMiddlewares, wsRouteQueue[j], j)]

StopStages == {NoStage} \cup UNION {Range(app[i].stages) : i \in DOMAIN app}

(* C4: after registration, a request for any queued route runs the same    *)
(* validators, middlewares and handler, in the same order, with the same   *)
(* short-circuit and the same responding stage, as it would had every      *)
(* route been registered directly.                                         *)
C4_GroupSameAsDirect ==
  RegisteredFromQueues =>
    \A i \in DOMAIN routeQueue : \A stop \in StopStages :
      Executes(MatchedStages(app, RequestFor(routeQueue[i])), stop)
        = Executes(MatchedStages(DirectApp, RequestFor(routeQueue[i])), stop)

AttachCount(appSeq, kinds, idx) ==
  Cardinality({k \in DOMAIN appSeq : appSeq[k].kind \in kinds /\ appSeq[k].src = idx})

(* C5: the second and every later start() call performs no route          *)
(* registration, so that however often start() is called no queued route   *)
(* is attached to the app more than once.                                  *)
C5_LaterStartRegistersNothing ==
  [][ (startCalls >= 1 /\ startCalls' = startCalls + 1) =>
        /\ app' = app
        /\ \A i \in DOMAIN routeQueue : AttachCount(app', {"route"}, i) <= 1
        /\ \A j \in DOMAIN wsRouteQueue : AttachCount(app', {"ws"}, j) <= 1 ]_vars

(* C5, for the calls that follow a start() whose registration completed:   *)
(* such a call attaches nothing, and the start() call that registers into  *)
(* the empty app attaches every queued HTTP route and WebSocket route      *)
(* exactly once.                                                           *)
C5_StartRegistersOnce ==
  [][ startCalls' = startCalls + 1 =>
        /\ routesRegistered => app' = app
        /\ (~routesRegistered /\ routesRegistered' /\ app = <<>>) =>
             /\ \A i \in DOMAIN routeQueue : AttachCount(app', {"route"}, i) = 1
             /\ \A j \in DOMAIN wsRouteQueue : AttachCount(app', {"ws"}, j) = 1
             /\ \A k \in DOMAIN app' :
                  \/ app'[k].kind = "use"
                  \/ app'[k].kind = "route" /\ app'[k].src \in DOMAIN routeQueue
                  \/ app'[k].kind = "ws" /\ app'[k].src \in DOMAIN wsRouteQueue ]_vars

(* The declared types present in every route's middleware list.            *)
CommonTypes(routes) ==
  {t \in MiddlewareTypes : \A i \in DOMAIN routes : t \in Range(routes[i].middlewares)}

EntryOf(idx) == CHOOSE k \in DOMAIN app : app[k].kind = "route" /\ app[k].src = idx

IsSuffix(s, seq) == Len(s) <= Len(seq) /\ SubSeq(seq, Len(seq) - Len(s) + 1, Len(seq)) = s

(* C9: after registration every queued route is attached once, routes of   *)
(* one base path keep their queue order, a route is attached through a     *)
(* group exactly when its partition has more than one route and some       *)
(* middleware type common to all of them, and a route attached directly    *)
(* sits at its full path with its full middleware list.                    *)
C9_GroupIffCommon ==
  RegisteredFromQueues =>
    \A i \in DOMAIN routeQueue :
      LET routes == RoutesAt(routeQueue, GroupMembers(routeQueue, i)) IN
      /\ AttachCount(app, {"route"}, i) = 1
      /\ \A j \in DOMAIN routeQueue :
           (i < j /\ extractBasePath(routeQueue[i].path) = extractBasePath(routeQueue[j].path))
             => EntryOf(i) < EntryOf(j)
      /\ app[EntryOf(i)].via = "group" <=> (Len(routes) > 1 /\ CommonTypes(routes) # {})
      /\ app[EntryOf(i)].via = "direct" =>
           /\ app[EntryOf(i)].path = routeQueue[i].path
           /\ IsSuffix(prepareMiddlewares(routeQueue[i].middlewares) \o <<prepareHandler(i)>>,
                       app[EntryOf(i)].stages)

(* C10: for every partition start() handed to extractCommonMiddlewares,    *)
(* the result holds exactly the middleware types present in all of the     *)
(* partition's routes, and is empty for a partition of one route.          *)
C10_CommonByType ==
  startCalls > 0 =>
    \A i \in DOMAIN routeQueue :
      LET routes == RoutesAt(routeQueue, GroupMembers(routeQueue, i))
          common == extractCommonMiddlewares(routes)
      IN /\ Len(routes) <= 1 => common = <<>>
         /\ Len(routes) > 1 => Range(common) = CommonTypes(routes)

-----------------------------------------------------------------------------
(* The pipeline specification: every use(), registerRoute() and            *)
(* registerWebsocketRoute() call of the setup phase comes before the first *)
(* start(), with the wider inputs.                                         *)

SetupPhase == startCalls = 0

NextPipeline ==
  \/ SetupPhase /\ \E entry \in PipelineGlobalInputs : use(entry)
  \/ SetupPhase /\ \E params \in PipelineRouteInputs : registerRoute(params)
  \/ SetupPhase /\ \E params \in PipelineWsRouteInputs : registerWebsocketRoute(params)
  \/ start

SpecPipeline == InitRoute /\ [][NextPipeline]_vars

-----------------------------------------------------------------------------
(* Claims about the registered pipeline, checked under SpecPipeline.       *)

(* The stages a request runs when every middleware and validator calls    *)
(* next.                                                                   *)
Served(req) == Executes(MatchedStages(app, req), NoStage)

RECURSIVE IsSubseq(_, _)
IsSubseq(s, seq) ==
  IF s = <<>> THEN TRUE
  ELSE IF seq = <<>> THEN FALSE
  ELSE IF Head(s) = Head(seq) THEN IsSubseq(Tail(s), Tail(seq))
  ELSE IsSubseq(s, Tail(seq))

RegisteredGlobals == Range(MapMiddleware(globalMiddlewares))

(* The place of a stage in the claimed order: validators, global           *)
(* middlewares, route middlewares, handler.                                *)
StageRank(st) ==
  CASE st.k = "validator" -> 0
    [] st.k = "middleware" /\ st.mw \in RegisteredGlobals -> 1
    [] st.k = "middleware" -> 2
    [] OTHER -> 3

MiddlewaresOf(run, types) ==
  LET picked == SelectSeq(run, LAMBDA st : st.k = "middleware" /\ st.mw \in types)
  IN [k \in 1..Len(picked) |-> picked[k].mw]

(* C11: a request for any registered route, grouped or direct, runs its    *)
(* validators before any middleware, then global middlewares in their      *)
(* registration order, then the route's common and remaining middlewares,  *)
(* and the handler last.                                                   *)
C11_StagesInOrder ==
  RegisteredFromQueues =>
    \A i \in DOMAIN routeQueue :
      LET run == Served(RequestFor(routeQueue[i])) IN
      /\ \A a, b \in DOMAIN run : a < b => StageRank(run[a]) <= StageRank(run[b])
      /\ IsSubseq(MiddlewaresOf(run, RegisteredGlobals), MapMiddleware(globalMiddlewares))
      /\ run # <<>> /\ Last(run).k = "handler"

CountOf(seq, x) == Cardinality({k \in DOMAIN seq : seq[k] = x})

(* C12: a request for a route registered inside a group runs exactly the   *)
(* middlewares declared on that route, each as often as it is declared:    *)
(* none twice, none dropped, none replaced by another route's middleware.  *)
C12_GroupRunsDeclared ==
  RegisteredFromQueues =>
    \A i \in DOMAIN routeQueue :
      app[EntryOf(i)].via = "group" =>
        LET run == Served(RequestFor(routeQueue[i]))
            ran == MiddlewaresOf(run, MiddlewareTypes \ RegisteredGlobals)
        IN \A t \in MiddlewareTypes \ RegisteredGlobals :
             CountOf(ran, t) = CountOf(routeQueue[i].middlewares, t)

(* The declared types found on some route of the base-path group of route *)
(* i and on no route or WebSocket route outside it.                        *)
OnlyInGroupOf(i) ==
  LET base == extractBasePath(routeQueue[i].path)
      inside == {q \in DOMAIN routeQueue : extractBasePath(routeQueue[q].path) = base}
  IN { t \in MiddlewareTypes \ RegisteredGlobals :
         /\ \E q \in inside : t \in Range(routeQueue[q].middlewares)
         /\ \A q \in DOMAIN routeQueue \ inside : t \notin Range(routeQueue[q].middlewares)
         /\ \A j \in DOMAIN wsRouteQueue : t \notin Range(wsRouteQueue[j].middlewares) }

UpgradeRequest(wsRoute) == Request("get", <<"">> \o wsRoute.path)

ServedBy(run, kind, idx) == run # <<>> /\ Last(run).k = kind /\ Last(run).r = idx

RanMiddleware(run, t) == \E k \in DOMAIN run : run[k].k = "middleware" /\ run[k].mw = t

(* C13: a middleware declared only on routes of one base-path group never  *)
(* runs for a request that a route outside that group serves, be that an   *)
(* HTTP route of another base path or a WebSocket route.                   *)
C13_GroupMiddlewareStaysInGroup ==
  RegisteredFromQueues =>
    \A i \in DOMAIN routeQueue : \A t \in OnlyInGroupOf(i) :
      /\ \A q \in DOMAIN routeQueue :
           extractBasePath(routeQueue[q].path) # extractBasePath(routeQueue[i].path) =>
             LET run == Served(RequestFor(routeQueue[q]))
             IN ServedBy(run, "handler", q) => ~RanMiddleware(run, t)
      /\ \A j \in DOMAIN wsRouteQueue :
           LET run == Served(UpgradeRequest(wsRouteQueue[j]))
           IN ServedBy(run, "upgrade", j) => ~RanMiddleware(run, t)

(* The paths the global middlewares are asked for: route paths, base       *)
(* paths, the WebSocket route's URL and its bare path.                     *)
ProbePaths ==
  {RootPath, UsersPath, UserIdPath, OrdersPath, ChatUrl, <<"chat">>, <<"", "api">>}

(* A config applies to a path: there is none, or no exclude pattern        *)
(* matches and, when an include list is given, some include pattern does.  *)
ConfigApplies(path, config) ==
  \/ ~config.present
  \/ /\ \A p \in config.exclude : ~matchesPattern(path, p)
     /\ config.hasInclude => \E p \in config.include : matchesPattern(path, p)

(* C14: getGlobalMiddlewaresForPath(path) returns exactly the middlewares  *)
(* of the registered entries whose config applies to the path: an entry    *)
(* without config always, an entry with a matching exclude pattern never   *)
(* (whatever its include list), an entry with an include list only when    *)
(* some include pattern matches.                                           *)
C14_GlobalsExactlyApplicable ==
  \A path \in ProbePaths :
    LET result == getGlobalMiddlewaresForPath(globalMiddlewares, path)
        applicable == {k \in DOMAIN globalMiddlewares :
                         ConfigApplies(path, globalMiddlewares[k].config)}
    IN /\ Len(result) = Cardinality(applicable)
       /\ \A t \in MiddlewareTypes :
            CountOf(result, t)
              = Cardinality({k \in applicable : globalMiddlewares[k].middleware = t})

(* start() has registered a route at /api/orders under the globals G (no   *)
(* config) and H (include /api/*, exclude /api/orders): only G is chosen.  *)
C14_Witness ==
  /\ RegisteredFromQueues
  /\ Len(globalMiddlewares) = 2
  /\ \E k \in DOMAIN globalMiddlewares :
       /\ globalMiddlewares[k].middleware = "H"
       /\ \E p \in globalMiddlewares[k].config.include : matchesPattern(OrdersPath, p)
       /\ \E p \in globalMiddlewares[k].config.exclude : matchesPattern(OrdersPath, p)
  /\ \E k \in DOMAIN globalMiddlewares : ~globalMiddlewares[k].config.present
  /\ \E i \in DOMAIN routeQueue :
       /\ routeQueue[i].path = OrdersPath
       /\ app[EntryOf(i)].stages = <<Stage("middleware", "G", 0), prepareHandler(i)>>

(* C15: the middlewares getGlobalMiddlewaresForPath returns keep their     *)
(* registration order: the result is a subsequence of the use() sequence.  *)
C15_GlobalsKeepOrder ==
  \A path \in ProbePaths :
    IsSubseq(getGlobalMiddlewaresForPath(globalMiddlewares, path),
             MapMiddleware(globalMiddlewares))

(* Two different global middlewares both apply to /api/users, and start()  *)
(* has put them in front of that route in their use() order.               *)
C15_Witness ==
  /\ RegisteredFromQueues
  /\ Len(globalMiddlewares) = 2
  /\ globalMiddlewares[1].middleware # globalMiddlewares[2].middleware
  /\ Len(getGlobalMiddlewaresForPath(globalMiddlewares, UsersPath)) = 2
  /\ \E i \in DOMAIN routeQueue :
       /\ routeQueue[i].path = UsersPath
       /\ app[EntryOf(i)].via = "direct"
       /\ SubSeq(app[EntryOf(i)].stages, 1, 2)
            = prepareMiddlewares(MapMiddleware(globalMiddlewares))

(* C16: a WebSocket route's upgrade endpoint, mounted at "/" + path, runs  *)
(* a global middleware exactly when that middleware's config applies to    *)
(* the URL path "/" + path.                                                *)
C16_WsGlobalsByUrl ==
  RegisteredFromQueues =>
    \A j \in DOMAIN wsRouteQueue : \A k \in DOMAIN globalMiddlewares :
      LET run == Served(UpgradeRequest(wsRouteQueue[j]))
      IN ServedBy(run, "upgrade", j) =>
           (RanMiddleware(run, globalMiddlewares[k].middleware)
              <=> \E g \in DOMAIN globalMiddlewares :
                    /\ globalMiddlewares[g].middleware = globalMiddlewares[k].middleware
                    /\ ConfigApplies(<<"">> \o wsRouteQueue[j].path,
                                     globalMiddlewares[g].config))

-----------------------------------------------------------------------------
(* The rate limiter's specification.                                       *)

InitRL == RLConstructed /\ WSIdle /\ ADIdle /\ RestIdle

(* What a cost function returns for the request; a fixed cost does not    *)
(* look at the request.                                                    *)
RequestCosts == IF cost.fn THEN 0..MaxCost ELSE {cost.fixed}

NextRL ==
  \/ \E k \in Keys : HandleSkip(k)
  \/ \E k \in Keys, c \in RequestCosts : Handle(k, c)
  \/ Tick

SpecRL == InitRL /\ [][NextRL]_vars

(* Two instances that share their options (the largest capacity and refill *)
(* rate, cost 1) serve the same clients.                                   *)
InitInstances ==
  /\ InitRL
  /\ capacity = MaxCapacity /\ refillRate = MaxRefillRate
  /\ cost = FixedCost(1) /\ statusCode = DefaultStatusCode

NextInstances ==
  \/ \E k \in Keys : Handle(k, 1)
  \/ \E k \in Keys : PeerHandle(k, 1)
  \/ Tick

SpecInstances == InitInstances /\ [][NextInstances]_vars

(* The rate limiter with its cleanup timer: options.bucketTTL and          *)
(* options.cleanupInterval are given, a cleanupInterval of 0 sets no timer. *)
BucketTTLs == {0, TickMs}

CleanupIntervals == {0, TickMs}

InitCleanup ==
  /\ RLConstructed /\ WSIdle /\ ADIdle /\ MWIdle /\ BPIdle /\ MeterIdle
  /\ capacity = MaxCapacity /\ refillRate = MaxRefillRate
  /\ cost = FixedCost(1) /\ statusCode = DefaultStatusCode
  /\ swept = {}
  /\ destroyed = FALSE
  /\ bucketTTL \in BucketTTLs
  /\ \E interval \in CleanupIntervals :
       cleanupTimer = IF interval > 0 THEN "running" ELSE "none"

NextCleanup ==
  \/ \E k \in Keys : MeteredHandle(k, 1)
  \/ Tick
  \/ Sweep
  \/ destroy

SpecCleanup == InitCleanup /\ [][NextCleanup]_vars


-----------------------------------------------------------------------------
(* Claims about the rate limiter, checked under SpecRL.                    *)

(* C1: with capacity > 0 and a cost > 0, the calls made to a freshly       *)
(* created bucket with zero elapsed time and that one cost are accepted    *)
(* floor(capacity / cost) times, no more, and the first rejection comes     *)
(* exactly after floor(capacity / cost) accepted calls.                    *)
C1_FreshBucketBurst ==
  \A k \in Keys :
    LET b == rlBurst[k] IN
    (capacity > 0 /\ b.uniform /\ b.cost > 0) =>
      /\ b.accepted <= capacity \div b.cost
      /\ b.rejected => b.accepted = capacity \div b.cost

C1_Witness ==
  \E k \in Keys :
    /\ capacity = 2 /\ ~cost.fn /\ cost.fixed = 1
    /\ rlBurst[k].uniform /\ rlBurst[k].accepted = 2 /\ rlBurst[k].rejected

(* C2: every bucket's tokens is at most capacity.                          *)
C2_TokensAtMostCapacity ==
  \A k \in Keys : ~buckets[k].absent => buckets[k].tokens <= Scaled(capacity)

(* A bucket that was created earlier, sat idle while the refill rate would *)
(* have filled it beyond capacity, and was then accessed.                  *)
C2_Witness ==
  \E k \in Keys :
    /\ capacity > 0 /\ refillRate > 0 /\ ~cost.fn
    /\ rlLast.kind = "reject" /\ rlLast.key = k /\ ~rlBurst[k].uniform
    /\ ~buckets[k].absent /\ buckets[k].lastRefill > 0
    /\ buckets[k].tokens = Scaled(capacity)

(* C3: a rejected call leaves tokens at the value the refill step computed; *)
(* an accepted call leaves it exactly requestCost below that value.        *)
C3_RejectKeepsAcceptSpends ==
  /\ rlLast.kind = "reject" =>
       buckets[rlLast.key].tokens = rlLast.refilled
  /\ rlLast.kind = "accept" =>
       buckets[rlLast.key].tokens = rlLast.refilled - Scaled(rlLast.cost)

C3_Witness ==
  /\ rlLast.kind = "reject" /\ rlLast.cost = 2
  /\ rlLast.refilled = TickMs /\ buckets[rlLast.key].tokens = TickMs

(* C17: when the skip predicate returns true, handle() calls next and      *)
(* leaves the rate limiter untouched: no bucket is created, no bucket's    *)
(* tokens or lastRefill changes, and no rate-limit header is set.          *)
C17_SkipTouchesNothing ==
  [][ rlLast'.kind = "skip" =>
        /\ buckets' = buckets
        /\ rlLast'.response.next
        /\ rlLast'.response.status = 0
        /\ rlLast'.response.headers = NoHeaders ]_vars

(* A skipped call for a key that has no bucket, while another key has one. *)
C17_Witness ==
  /\ rlLast.kind = "skip"
  /\ buckets[rlLast.key].absent
  /\ \E k \in Keys : ~buckets[k].absent

(* C18: a request whose bucket holds fewer tokens than its cost is         *)
(* answered without calling next, with the configured status (429 unless   *)
(* given) and message and the headers Retry-After = ceil((cost - tokens) / *)
(* refillRate), X-RateLimit-Limit = floor(refillRate * 60),                *)
(* X-RateLimit-Remaining = floor(tokens) and X-RateLimit-Reset.            *)
C18_RejectResponse ==
  rlLast.kind = "reject" =>
    LET r == rlLast.response
        h == r.headers
        short == Scaled(rlLast.cost) - rlLast.refilled
        perSecond == Scaled(refillRate)
    IN /\ rlLast.refilled < Scaled(rlLast.cost)
       /\ ~r.next
       /\ r.status = statusCode /\ r.body = message
       /\ h.retryAfter.set /\ h.limit.set /\ h.remaining.set /\ h.reset.set
       /\ refillRate = 0 => h.retryAfter.inf
       /\ refillRate > 0 =>
            /\ ~h.retryAfter.inf
            /\ h.retryAfter.n * perSecond >= short
            /\ (h.retryAfter.n - 1) * perSecond < short
       /\ refillRate < 0 =>
            /\ ~h.retryAfter.inf
            /\ h.retryAfter.n * perSecond <= short
            /\ (h.retryAfter.n - 1) * perSecond > short
       /\ ~h.limit.inf /\ h.limit.n = refillRate * 60
       /\ ~h.remaining.inf
       /\ Scaled(h.remaining.n) <= rlLast.refilled
       /\ rlLast.refilled < Scaled(h.remaining.n + 1)

(* A rejection with a custom status, half a token in the bucket and a      *)
(* positive refill rate: the quotient is rounded up.                       *)
C18_Witness ==
  /\ rlLast.kind = "reject"
  /\ statusCode # DefaultStatusCode
  /\ refillRate > 0
  /\ (Scaled(rlLast.cost) - rlLast.refilled) % Scaled(refillRate) # 0
  /\ rlLast.refilled > 0

(* C19: with capacity 0 every request that is not skipped is rejected,     *)
(* whatever its cost, its key and the elapsed time.                        *)
C19_ZeroCapacityRejectsAll ==
  (capacity = 0 /\ rlLast.kind \in {"accept", "reject"}) => rlLast.kind = "reject"

(* C20: a rate limiter exists only with a capacity and a refill rate that  *)
(* are not negative: the constructor fails for the others.                 *)
C20_NegativeConfigFails ==
  capacity >= 0 /\ refillRate >= 0

(* C21: a handle() call for a key on one instance changes only that key's  *)
(* bucket on that instance, no other key's bucket and no bucket of the     *)
(* other instance; whether a request is rejected depends only on the       *)
(* tokens of its own bucket.                                               *)
C21_BucketsIsolated ==
  [][ rlLast'.kind \in {"accept", "reject"} =>
        /\ rlLast'.on = "M" =>
             /\ peerBuckets' = peerBuckets
             /\ \A k \in Keys \ {rlLast'.key} : buckets'[k] = buckets[k]
        /\ rlLast'.on = "N" =>
             /\ buckets' = buckets
             /\ \A k \in Keys \ {rlLast'.key} : peerBuckets'[k] = peerBuckets[k]
        /\ rlLast'.kind = "reject" <=> rlLast'.refilled < Scaled(rlLast'.cost) ]_vars

(* One client's bucket is exhausted on the first instance (its last        *)
(* request was rejected there); a request of another client on that        *)
(* instance and one of the same client on the other instance are accepted. *)
C21_Witness ==
  /\ ~buckets["k1"].absent /\ buckets["k1"].tokens < Scaled(1)
  /\ ~buckets["k2"].absent /\ buckets["k2"].tokens = Scaled(capacity - 1)
  /\ buckets["k2"].lastRefill = buckets["k1"].lastRefill
  /\ rlLast.on = "N" /\ rlLast.key = "k1" /\ rlLast.kind = "accept"
  /\ peerBuckets["k2"].absent

-----------------------------------------------------------------------------
(* Specification of one request through the parsed middlewares.            *)

InitParser == MWConstructed /\ RLIdle /\ WSIdle /\ ADIdle /\ CleanupIdle /\ BPIdle /\ MeterIdle

NextParser ==
  \/ DispatchMiddleware
  \/ DispatchHandler
  \/ ResumeMiddleware

SpecParser == InitParser /\ [][NextParser]_vars

(* The stages of the request that are parsed middlewares (the last stage   *)
(* may be the route handler).                                              *)
MiddlewareStages == {i \in 1..Len(mwStages) : i <= Len(mwChain)}

(* C22: when the handle of a non-override middleware returns false, the    *)
(* built function returns without calling next: unless the handle itself   *)
(* had called next, the request ends at that stage, so that no later       *)
(* middleware and no handler runs.                                         *)
C22_FalseStopsPipeline ==
  \A i \in MiddlewareStages :
    (~mwChain[i].override /\ mwChain[i].result = "false" /\ ~mwChain[i].callsNext) =>
      /\ Len(mwStages) = i
      /\ mwStages[i].state = "done"
      /\ ~mwStages[i].outcome.threw

C22_Witness ==
  /\ Len(mwChain) = 2 /\ Len(mwStages) = 2
  /\ mwChain[1].callsNext /\ mwStages[1].state = "done"
  /\ mwChain[2] = [override |-> FALSE, callsNext |-> FALSE, result |-> "false"]

(* C23: when the handle of a non-override middleware returns a Response,   *)
(* the built function returns that very Response to the transport, at      *)
(* every position of the chain; a handle that answers without calling next *)
(* (a rate-limit rejection) ends the request at its stage.                 *)
C23_ResponseReturnedAsIs ==
  \A i \in MiddlewareStages :
    (~mwChain[i].override /\ mwChain[i].result = "response"
       /\ mwStages[i].state = "done") =>
      /\ mwStages[i].outcome = Returned("response", i)
      /\ ~mwChain[i].callsNext => Len(mwStages) = i

C23_Witness ==
  /\ Len(mwChain) = 2 /\ Len(mwStages) = 2
  /\ mwChain[1] = [override |-> FALSE, callsNext |-> TRUE, result |-> "response"]
  /\ mwChain[2] = [override |-> FALSE, callsNext |-> FALSE, result |-> "response"]
  /\ mwStages[1].state = "done"

(* C24: within one request at most one context wrapper is created: the     *)
(* first non-override middleware creates and stores it, every later        *)
(* non-override middleware receives that instance, and an override         *)
(* middleware receives the raw context and creates and stores none.        *)
C24_OneWrapperPerRequest ==
  /\ mwWrappers <= 1
  /\ mwStore = 0 => \A i \in MiddlewareStages : mwChain[i].override
  /\ \A i \in MiddlewareStages :
       mwStages[i].received = IF mwChain[i].override THEN Raw ELSE mwStore

(* C25: an error thrown by the handle of a middleware, override or not,    *)
(* leaves the built function as that same error: the stage ends by         *)
(* throwing it, and nothing later runs because of it.                      *)
C25_ErrorPropagates ==
  \A i \in MiddlewareStages :
    (mwChain[i].result = "throw" /\ mwStages[i].state = "done") =>
      /\ mwStages[i].outcome = Threw(i)
      /\ ~mwChain[i].callsNext => Len(mwStages) = i

C25_Witness ==
  /\ Len(mwChain) = 2 /\ Len(mwStages) = 2
  /\ mwChain[1] = [override |-> TRUE, callsNext |-> TRUE, result |-> "throw"]
  /\ mwChain[2] = [override |-> FALSE, callsNext |-> FALSE, result |-> "throw"]
  /\ mwStages[1].outcome = Threw(1)

(* C26: registerWebSocket throws and leaves the namespace registry as it   *)
(* was when the service is missing, when its namespace is missing and when *)
(* its namespace has a character outside letters, digits, '-', '_' and     *)
(* '/'; a service whose namespace has only such characters is registered.  *)
C26_BadRegistrationRejected ==
  [][ \A svc \in RegistryInputs :
        registerWebSocket(svc) =>
          IF svc \in {NoService, "s4", "s5", "s6"}
          THEN /\ wsThrown' # "none"
               /\ websockets' = websockets
               /\ wsLatest' = wsLatest
          ELSE /\ wsThrown' = "none"
               /\ websockets' = [websockets EXCEPT ![SvcNamespace(svc)] = svc] ]_vars

C26_Witness ==
  /\ websockets[FeedNamespace] = "s3"
  /\ websockets["chat"] = "s2"
  /\ wsThrown = "Invalid WebSocket namespace format"

(* C27: an exception in a user hook is caught and logged and, while the    *)
(* socket is open, an error notification is sent; the connection is then   *)
(* closed with 1011 "Handler error" when the event is open or message, and *)
(* is left as it was for drain, ping, pong and close.                      *)
C27_HandlerErrorContained ==
  [][ \A c \in Conns :
        /\ \A type \in EventTypes :
             (WsEvent(c, type, "throw") /\ websockets[conn[c].path] # NoService) =>
               /\ conn'[c].logged = "handler error" /\ conn'[c].notified
               /\ IF type = "message"
                  THEN /\ conn'[c].st = "closing" /\ conn'[c].code = 1011
                       /\ conn'[c].reason = "Handler error"
                  ELSE conn'[c].st = "open"
        /\ \A ns \in Namespaces :
             (WsOpen(c, ns, "throw") /\ websockets[ns] # NoService /\ ~LimitReached(ns)) =>
               /\ conn'[c].logged = "handler error" /\ conn'[c].notified
               /\ conn'[c].st = "closing" /\ conn'[c].code = 1011
               /\ conn'[c].reason = "Handler error"
        /\ (WsClose(c, "throw") /\ websockets[conn[c].path] # NoService) =>
               /\ conn'[c].logged = "handler error"
               /\ conn'[c].notified = conn[c].notified
               /\ conn'[c].st = "closed"
               /\ conn'[c].code = IF conn[c].st = "open" THEN 1000 ELSE conn[c].code
    ]_vars

C27_Witness ==
  /\ conn["c1"].st = "open" /\ conn["c1"].logged = "handler error" /\ conn["c1"].notified
  /\ conn["c2"].st = "closed" /\ conn["c2"].code = 1011
  /\ conn["c2"].reason = "Handler error" /\ conn["c2"].openCalled

C29_HeartbeatFailureStops ==
  [][ \A c \in Conns :
        /\ (HeartbeatTick(c, TRUE) /\ conn[c].st = "open") =>
             /\ c \notin heartbeatIntervals'
             /\ heartbeatIntervals' = heartbeatIntervals \ {c}
             /\ conn'[c].pinged
             /\ conn'[c].st = "closing" /\ conn'[c].code = 1011
             /\ conn'[c].reason = "Heartbeat failed"
        /\ (HeartbeatTick(c, FALSE) /\ conn[c].st = "open") =>
             /\ heartbeatIntervals' = heartbeatIntervals
             /\ conn'[c].pinged /\ conn'[c].st = "open"
        /\ \A pingFails \in BOOLEAN :
             (HeartbeatTick(c, pingFails) /\ conn[c].st # "open") =>
               /\ heartbeatIntervals' = heartbeatIntervals \ {c}
               /\ conn' = conn
    ]_vars

C29_Witness ==
  /\ conn["c1"].st = "closing" /\ conn["c1"].reason = "Heartbeat failed"
  /\ conn["c1"].code = 1011 /\ "c1" \notin heartbeatIntervals
  /\ conn["c2"].st = "closing" /\ conn["c2"].reason = "Handler error"
  /\ ~conn["c2"].pinged /\ "c2" \notin heartbeatIntervals
  /\ heartbeatInterval = HeartbeatMs

(* C30: a cleanup sweep deletes exactly the buckets with                   *)
(* now - lastRefill > bucketTTL: a bucket used within the last bucketTTL   *)
(* milliseconds is never deleted, by a sweep or otherwise, and after a     *)
(* sweep no bucket older than bucketTTL remains.                           *)
C30_SweepDeletesExpired ==
  [][ /\ \A k \in Keys :
           (~buckets[k].absent /\ buckets'[k].absent) =>
             now - buckets[k].lastRefill > bucketTTL
      /\ Sweep =>
           \A k \in Keys :
             /\ buckets'[k] = IF ~buckets[k].absent /\ now - buckets[k].lastRefill > bucketTTL
                              THEN NoBucket ELSE buckets[k]
             /\ ~buckets'[k].absent => now - buckets'[k].lastRefill <= bucketTTL ]_vars

C30_Witness ==
  /\ swept = {"k1"} /\ buckets["k1"].absent
  /\ ~buckets["k2"].absent /\ now - buckets["k2"].lastRefill = bucketTTL
  /\ bucketTTL = TickMs

(* C31: once destroy() has returned no cleanup sweep runs again, so no     *)
(* step takes a bucket away or records a sweep; a limiter built with       *)
(* cleanupInterval 0 never sweeps at all, and destroy() on it returns      *)
(* without changing the timer field or any bucket.                         *)
C31_NoSweepAfterDestroy ==
  [][/\ (destroyed \/ cleanupTimer = "none") =>
          /\ swept' = swept
          /\ \A k \in Keys : ~buckets[k].absent => ~buckets'[k].absent
     /\ (cleanupTimer = "none" /\ ~destroyed /\ destroyed') =>
          /\ cleanupTimer' = "none"
          /\ buckets' = buckets]_vars

(* destroy() was called on a limiter whose timer was running, while a      *)
(* bucket older than the TTL was still stored.                             *)
C31_Witness ==
  /\ destroyed /\ cleanupTimer = "cleared"
  /\ \E k \in Keys : Expired(buckets[k], now)

(* destroy() has returned on a limiter built with cleanupInterval 0, with  *)
(* an expired bucket still stored.                                         *)
C31_WitnessNoTimer ==
  /\ destroyed /\ cleanupTimer = "none"
  /\ \E k \in Keys : Expired(buckets[k], now)

(* C32: shutdown() closes all connections: when it completes, every        *)
(* connection that was open is closed, no heartbeat timer remains and      *)
(* every namespace's active count is 0.                                    *)
C32_ShutdownClosesAll ==
  [][shutdown =>
       /\ \A c \in Conns : conn[c].st = "open" => conn'[c].st \in {"closing", "closed"}
       /\ heartbeatIntervals' = {}
       /\ \A ns \in Namespaces : Cardinality(activeConnections'[ns]) = 0]_vars

-----------------------------------------------------------------------------
(* extractBasePath as a function of its argument: every way a path of up   *)
(* to MaxSegments segments can split at '/'.                               *)
MaxSegments == 4

PathSegments == {"", "api", "users", ":id", "*", "v*", "a:b"}

SplitPaths == UNION {[1..n -> PathSegments] : n \in 1..MaxSegments}

InitBasePath ==
  /\ RLIdle /\ WSIdle /\ ADIdle /\ MWIdle /\ CleanupIdle /\ MeterIdle
  /\ bpPath \in SplitPaths
  /\ bpResult = NoBasePath

callExtractBasePath ==
  /\ bpResult = NoBasePath
  /\ bpResult' = extractBasePath(bpPath)
  /\ UNCHANGED <<bpPath, rlVars, wsVars, adVars, mwVars, cleanupVars, meterVars>>

NextBasePath == callExtractBasePath

SpecBasePath == InitBasePath /\ [][NextBasePath]_vars

(* The segments that start with ':' or contain '*'.                        *)
C33_Dynamic == {":id", "*", "v*"}

(* The position of the first such segment, one past the end if none.       *)
C33_FirstDynamic(path) ==
  IF \E i \in 1..Len(path) : path[i] \in C33_Dynamic
  THEN CHOOSE i \in 1..Len(path) :
         /\ path[i] \in C33_Dynamic
         /\ \A j \in 1..(i - 1) : path[j] \notin C33_Dynamic
  ELSE Len(path) + 1

(* The text of the path before that segment (it ends with the '/' before   *)
(* the segment), without one trailing '/', and '/' if nothing is left.     *)
C33_LiteralPrefix(path) ==
  LET k == C33_FirstDynamic(path)
      prefix == IF k <= Len(path) THEN SubSeq(path, 1, k - 1) \o <<"">> ELSE path
      trimmed == IF Len(prefix) > 1 /\ Last(prefix) = "" THEN Front(prefix) ELSE prefix
  IN IF trimmed = <<"">> THEN RootPath ELSE trimmed

(* C33: extractBasePath returns the longest prefix of whole segments       *)
(* before the first segment that starts with ':' or contains '*', without  *)
(* a trailing '/', and '/' when that prefix is empty.                      *)
C33_BasePathIsLiteralPrefix ==
  bpResult # NoBasePath => bpResult = C33_LiteralPrefix(bpPath)

(* '/api/users/:id' gave '/api/users'.                                     *)
C33_Witness == bpPath = UserIdPath /\ bpResult = UsersPath

(* '/api/*/wild'-like and '/' inputs: '/api/v*/users' gave '/api', and '/' *)
(* gave '/'.                                                               *)
C33_WitnessWildcard == bpPath = <<"", "api", "v*", "users">> /\ bpResult = <<"", "api">>

C33_WitnessRoot == bpPath = RootPath /\ bpResult = RootPath

(* C34: for each key the cost of the requests accepted between the         *)
(* construction and now is at most capacity + refillRate * elapsed / 1000, *)
(* whatever calls and cleanup sweeps came in between.                      *)
C34_AcceptedWithinRate ==
  \A k \in Keys : Scaled(acceptedCost[k]) <= Scaled(capacity) + refillRate * now

(* The same bound for a limiter on which no sweep can have run.            *)
C34_WithinRateWithoutSweeps ==
  (cleanupTimer = "none" /\ ~destroyed) => C34_AcceptedWithinRate

(* A call of handle() for the key and cost of the rejection just answered, *)
(* made exactly Retry-After seconds after it, with a positive refill rate. *)
C35_RetriedOnTime ==
  /\ refillRate > 0
  /\ rlLast.on = "M" /\ rlLast.kind = "reject"
  /\ rlLast.response.headers.retryAfter.set
  /\ ~rlLast.response.headers.retryAfter.inf
  /\ ~buckets[rlLast.key].absent
  /\ now - buckets[rlLast.key].lastRefill
       = rlLast.response.headers.retryAfter.n * MsPerSecond
  /\ now # buckets[rlLast.key].lastRefill
  /\ rlLast'.on = "M" /\ rlLast'.kind \in {"accept", "reject"}
  /\ rlLast'.key = rlLast.key /\ rlLast'.cost = rlLast.cost
  /\ buckets'[rlLast.key].lastRefill = now

(* C35: with refillRate > 0, a request rejected with Retry-After = r and   *)
(* repeated r seconds later, with no other request for its key in between, *)
(* is accepted.                                                            *)
C35_RetryAfterSuffices ==
  [][C35_RetriedOnTime => rlLast'.kind = "accept"]_vars

(* The same for a request whose cost the bucket can ever hold.             *)
C35_SufficesWithinCapacity ==
  [][(C35_RetriedOnTime /\ rlLast.cost <= capacity) => rlLast'.kind = "accept"]_vars

(* C36: for every namespace with a configured connection limit, the number *)
(* of tracked active connections never exceeds that limit.                 *)
C36_CountWithinLimit ==
  \A ns \in Namespaces :
    connectionLimits[ns] # NoLimit =>
      Cardinality(activeConnections[ns]) <= connectionLimits[ns]

(* C37: the user close handler is invoked for a connection only if the     *)
(* connection entered OPEN (its id was added to the active set and the     *)
(* user open handler was invoked); a connection rejected for the limit     *)
(* never reaches the user close handler.                                   *)
C37_CloseOnlyAfterOpen ==
  \A c \in Conns :
    conn[c].closeCalled =>
      /\ conn[c].admitted /\ conn[c].openCalled
      /\ ~conn[c].overLimit

(* The order of the states alone: a closed connection stays closed, and no *)
(* connection goes back to an earlier state.                               *)
C37_ClosedIsTerminal ==
  [][\A c \in Conns :
       /\ conn[c].st = "closed" => conn'[c].st = "closed"
       /\ conn[c].st \in {"open", "closing"} => conn'[c].st # "new"]_vars

(* C38: every connection id that holds a heartbeat timer is in the active  *)
(* set of its namespace, and no timer is left for a connection whose close *)
(* event was handled, whose heartbeat failed, or that a shutdown dropped   *)
(* from the active sets.                                                   *)
C38_TimersOnlyForTracked ==
  \A c \in Conns :
    c \in heartbeatIntervals =>
      /\ conn[c].path \in Namespaces
      /\ c \in activeConnections[conn[c].path]
      /\ conn[c].st \in {"open", "closing"}
      /\ conn[c].reason # "Heartbeat failed"

(* One connection holds a timer and is tracked; the other was opened with  *)
(* a timer before a shutdown and is left open with neither.                *)
C38_Witness ==
  \E c, d \in Conns :
    /\ heartbeatInterval = HeartbeatMs
    /\ c \in heartbeatIntervals /\ c \in activeConnections[conn[c].path]
    /\ conn[d].st = "open" /\ conn[d].admitted
    /\ d \notin heartbeatIntervals /\ d \notin activeConnections[conn[d].path]

(* C39: a registerWebsocketRoute call that raises a configuration error    *)
(* (missing namespace, invalid namespace format) leaves the adapter as it  *)
(* was: wsRouteQueue and the namespace registry hold what they held        *)
(* before the call.                                                        *)
C39_FailedRegistrationChangesNothing ==
  [][\A params \in WsRouteInputs :
       ( /\ registerWebsocketRoute(params)
         /\ params.websocketService # NoService
         /\ registerWebSocketError(params.websocketService) # "none" ) =>
           /\ wsRouteQueue' = wsRouteQueue
           /\ websockets' = websockets]_vars

(* C40: whenever routesRegistered is true, every route held in routeQueue  *)
(* and wsRouteQueue is attached to the Hono app exactly once.              *)
C40_QueuedRoutesAttachedOnce ==
  routesRegistered =>
    /\ \A i \in DOMAIN routeQueue : AttachCount(app, {"route"}, i) = 1
    /\ \A j \in DOMAIN wsRouteQueue : AttachCount(app, {"ws"}, j) = 1

(* The part of C40 about attaching twice, and the part about late routes.  *)
C40_NeverAttachedTwice ==
  routesRegistered =>
    /\ \A i \in DOMAIN routeQueue : AttachCount(app, {"route"}, i) <= 1
    /\ \A j \in DOMAIN wsRouteQueue : AttachCount(app, {"ws"}, j) <= 1

C40_NoneLeftUnattached ==
  routesRegistered =>
    /\ \A i \in DOMAIN routeQueue : AttachCount(app, {"route"}, i) >= 1
    /\ \A j \in DOMAIN wsRouteQueue : AttachCount(app, {"ws"}, j) >= 1
====
